---- MODULE Spec2Model ----
(***************************************************************************)
(* State-machine model of the stream server: the RTSP ingest supervisor    *)
(* (RtspPipeline), the peer registry (WebRtcServer / PeerConnection) and   *)
(* the signaling endpoint (SignalingServer).                               *)
(*                                                                         *)
(* Threads are modelled by program counters; one action is one atomic      *)
(* step of one thread (a statement, or a critical section under a lock).   *)
(***************************************************************************)
EXTENDS Integers, Sequences, FiniteSets, TLC

(***************************************************************************)
(* Configuration (config.hpp defaults) and model bounds.                   *)
(***************************************************************************)
min_bitrate_kbps == 500
max_bitrate_kbps == 8000
bitrate_kbps == 4000
SleepSliceMs == 100
\* rtsp.reconnect_interval_ms, scaled down to two sleep slices
reconnect_interval_ms == 200
\* the configured values of rtsp.reconnect_max_attempts: the default 0
\* ("unlimited") and a limit of one attempt
AttemptLimits == {0, 1}
\* the source faults (build error, state-change failure, ERROR, EOS) at most
\* MaxFaults times in a run
MaxFaults == 2
\* the appsink delivers at most MaxFrames samples in a run
MaxFrames == 1

Modes == {"test", "passthrough", "reencode_sw", "reencode_hw"}
ReencodeModes == {"reencode_sw", "reencode_hw"}
\* bitrate hints a caller passes to set_bitrate (below, inside and above the
\* configured range)
BitrateInputs == {100, 2000, 12000}
BusMsgs == {"none", "ERROR", "EOS", "WARNING", "STATE_CHANGED"}

VARIABLES
    \* ---- RtspPipeline -----------------------------------------------------
    mode,                   \* graph variant build_pipeline selects (config + platform)
    reconnect_max_attempts, \* config_.rtsp.reconnect_max_attempts
    pc,                     \* position of pipeline_thread ("none": no worker)
    thread_joinable,        \* thread_.joinable()
    running_,               \* std::atomic<bool> running_
    stop_requested_,        \* std::atomic<bool> stop_requested_
    pipeline_,              \* GstElement* pipeline_: "nullptr" | "ptr"
    graph,                  \* the graph object pipeline_ last pointed to:
                            \*   "none" | "ready" | "playing" | "released"
    encoder_,               \* GstElement* encoder_: "nullptr" | "ptr"
    enc_prop,               \* "bitrate" property of the encoder element of the
                            \* last built graph, in the element's own unit (0: no encoder)
    is_hw_encode_,          \* bool is_hw_encode_
    pipeline_ok,            \* local of pipeline_thread
    msg,                    \* type of the bus message just popped
    elapsed,                \* local of attempt_reconnect (0 outside the call)
    stats_connected,        \* stats_.connected
    reconnect_count,        \* stats_.reconnect_count
    frames_received,        \* stats_.frames_received
    mainPc,                 \* position of the thread calling start()/stop()
    sbPc,                   \* position of the thread calling set_bitrate()
    sb_k,                   \* argument of the set_bitrate call in progress (0: none)
    crashed,                \* std::terminate was called
    sdPc,                   \* the statement of main() the main thread has reached
    faults,                 \* history: number of faults of the supervisor so far
    run_faults,             \* history: faults since the worker was last spawned
    \* ---- WebRtcServer / PeerConnection ------------------------------------
    peers,                  \* peers_: peer_id -> PeerConnection (a function whose
                            \* domain is the set of ids in the map)
    next_ssrc_,             \* PeerConnection::next_ssrc_, a uint32 as two 16-bit halves
    reg_running_,           \* WebRtcServer::running_ (the reaper runs while true)
    cleanupPc,              \* cleanup_thread_: "none" | "loop" | "done"
    churned,                \* history: number of bulk create/remove batches so far
    \* ---- SignalingServer ---------------------------------------------------
    sig_running_,           \* SignalingServer::running_
    ws_server_,             \* SignalingServer::ws_server_, the listener: "nullptr" | "ptr"
    clients_,               \* clients_: peer_id -> socket of the ClientSession
    wsState,                \* per socket: "none" | "open" | "closed"
    occPc,                  \* per socket: position of its on_client_connected call
    occPeer,                \* per socket: peer_id returned by create_peer ("" refused)
    wsHandlers,             \* per socket: onMessage/onClosed/onError are registered
    cbPending,              \* per socket: position of its on_client_disconnected call
    sendCalls,              \* per socket: the messages passed to ws->send, in order
    msgCount,               \* per socket: frames the client has sent so far
    bitrate_cb_calls,       \* the arguments bitrate_cb_ was invoked with, in order
    msgLog,                 \* history, per socket: the frames on_client_message was
                            \* given, whether the peer was in the map then, and how
                            \* each call ended ("returned" | "threw")
    bitrate_msgs,           \* history: the kbps of the "bitrate" frames handled, in order
    \* ---- locks and calls in progress ---------------------------------------
    peers_mutex_,           \* WebRtcServer::peers_mutex_: "free" or the thread holding it
    bc,                     \* the broadcast_nal call in progress on the streaming
                            \* thread: its NAL, the entries its loop has still to
                            \* visit, and (history) the map's keys when it took the
                            \* lock and the entries it has visited
    \* ---- set_bitrate as a function of the configuration ---------------------
    rate_in,                \* the argument, max_bitrate_kbps and is_hw_encode_ of a
                            \* set_bitrate call on a running re-encode pipeline
    rate_out,               \* what the call did: nothing yet, the guint it gave
                            \* g_object_set (4 bytes), or a trap
    \* ---- HttpServer --------------------------------------------------------
    http_uri,               \* the URI of a GET request, as its path segments
    http_resp,              \* the response: none yet, 404, or 200 with the file sent
    \* ---- history of set_bitrate --------------------------------------------
    sb_hinted,              \* history: a set_bitrate call has set an encoder to a
                            \* value other than the configured bitrate_kbps
    \* ---- the other mutexes and the threads at their lock statements --------
    clients_mutex_,         \* SignalingServer::clients_mutex_: "free" or its holder
    stats_mutex_,           \* PeerConnection::stats_mutex_ of each session id
    lkPc,                   \* per thread: the lock or unlock statement it stands at
    lkArg,                  \* per thread: the session (and state) its call is about
    lkTodo                  \* per thread: the map entries its loop has still to visit

\* the state of the RtspPipeline object and of its caller
pipeState == <<mode, reconnect_max_attempts, pc, thread_joinable, running_,
               stop_requested_, pipeline_, graph, encoder_, enc_prop,
               is_hw_encode_, pipeline_ok, msg, elapsed, stats_connected,
               reconnect_count, frames_received, mainPc, sbPc, sb_k, crashed,
               faults, run_faults>>

pipeVars == <<pipeState, sdPc>>

regVars == <<peers, next_ssrc_, reg_running_, cleanupPc, churned>>

sigVars == <<sig_running_, ws_server_, clients_, wsState, occPc, occPeer, wsHandlers,
             cbPending, sendCalls, msgCount, bitrate_cb_calls, msgLog,
             bitrate_msgs>>

\* the mutexes other than peers_mutex_ and the threads' positions
lockVars == <<clients_mutex_, stats_mutex_, lkPc, lkArg, lkTodo>>

\* the variables only set_bitrate's write and the lock model touch
noteVars == <<sb_hinted, lockVars>>

\* peers_mutex_, the broadcast in progress and the other state added below
auxVars == <<peers_mutex_, bc, rate_in, rate_out, http_uri, http_resp, noteVars>>

vars == <<pipeVars, regVars, sigVars, auxVars>>

(***************************************************************************)
(* RtspPipeline: pure helpers                                              *)
(***************************************************************************)
Min(a, b) == IF a < b THEN a ELSE b
Max(a, b) == IF a > b THEN a ELSE b

\* a clamp that lost its upper limit
ClampNoUpper(k) == Max(min_bitrate_kbps, k)

\* rtsp_pipeline.cpp:55-56  std::max(min, std::min(k, max))
Clamp(k) == Max(min_bitrate_kbps, Min(k, max_bitrate_kbps))

\* the mathematical clamp of the specification
SpecClamp(k, lo, hi) == IF k < lo THEN lo ELSE IF k > hi THEN hi ELSE k

\* The unit of the encoder element's "bitrate" property: nvv4l2h264enc takes
\* bits per second, x264enc takes kbps.
EncoderUnit(m) == IF m = "reencode_hw" THEN 1000 ELSE 1

\* The value set_bitrate writes (rtsp_pipeline.cpp:58-64); with the configured
\* limits the product stays far below the int range
AppliedValue(k, hw) == IF hw THEN Clamp(k) * 1000 ELSE Clamp(k)

\* a rebuild that handed the old encoder's setting on to the new one
CarriedEncProp(m) == enc_prop

\* "bitrate=" in the pipeline description of build_pipeline: the encoder's
\* initial setting (0 when the graph has no encoder)
InitialEncProp(m) ==
    CASE m = "test"        -> bitrate_kbps
      [] m = "passthrough" -> 0
      [] m = "reencode_sw" -> bitrate_kbps
      [] m = "reencode_hw" -> bitrate_kbps * 1000

\* gst_bin_get_by_name(pipeline_, "enc"): only the re-encode descriptions
\* name their encoder "enc"
EncoderLookup(m) == IF m \in ReencodeModes THEN "ptr" ELSE "nullptr"

\* The supervisor state of the specification, read off the worker's position
SupState ==
    CASE pc = "none"                                  -> "Idle"
      [] pc = "entry"                                 -> "Spawned"
      [] pc \in {"build", "set_playing"}              -> "Building"
      [] pc = "store_running"                         -> "Playing"
      [] pc \in {"poll_check", "pop"}                 ->
            IF pipeline_ok THEN "Playing" ELSE "Faulted"
      [] pc \in {"td_bus", "td_stats", "td_state", "td_unref", "td_clear",
                 "td_check"}                          ->
            IF pipeline_ok THEN "Stopping" ELSE "Faulted"
      [] pc \in {"fail_unref", "fail_clear", "rc_entry", "rc_count"}
                                                      -> "Faulted"
      [] pc \in {"rc_sleep", "loop"}                  -> "Backoff"
      [] pc = "done"                                  -> "Exited"

(***************************************************************************)
(* Init                                                                    *)
(***************************************************************************)
PipeInit ==
    /\ mode \in Modes
    /\ reconnect_max_attempts \in AttemptLimits
    /\ pc = "none"
    /\ thread_joinable = FALSE
    /\ running_ = FALSE
    /\ stop_requested_ = FALSE
    /\ pipeline_ = "nullptr"
    /\ graph = "none"
    /\ encoder_ = "nullptr"
    /\ enc_prop = 0
    /\ is_hw_encode_ = FALSE
    /\ pipeline_ok = TRUE
    /\ msg = "none"
    /\ elapsed = 0
    /\ stats_connected = FALSE
    /\ reconnect_count = 0
    /\ frames_received = 0
    /\ mainPc = "idle"
    /\ sbPc = "idle"
    /\ sb_k = 0
    /\ crashed = FALSE
    /\ sdPc = "init"
    /\ faults = 0
    /\ run_faults = 0

(***************************************************************************)
(* RtspPipeline::pipeline_thread (the supervisor worker)                   *)
(***************************************************************************)
\* the variables no step of the worker writes
workerFrame == <<mode, reconnect_max_attempts, thread_joinable, stop_requested_,
                 frames_received, mainPc, sbPc, sb_k, crashed, sdPc, regVars,
                 sigVars>>

\* rtsp_pipeline.cpp:268, first evaluation after the thread was spawned
SupEntry ==
    /\ ~crashed /\ pc = "entry"
    /\ pc' = IF stop_requested_ THEN "done" ELSE "build"
    /\ UNCHANGED <<workerFrame, running_, pipeline_, graph, encoder_, enc_prop,
                   is_hw_encode_, pipeline_ok, msg, elapsed, stats_connected,
                   reconnect_count, faults, run_faults, auxVars>>

\* rtsp_pipeline.cpp:268, evaluated again after a back-off
SupLoop ==
    /\ ~crashed /\ pc = "loop"
    /\ pc' = IF stop_requested_ THEN "done" ELSE "build"
    /\ UNCHANGED <<workerFrame, running_, pipeline_, graph, encoder_, enc_prop,
                   is_hw_encode_, pipeline_ok, msg, elapsed, stats_connected,
                   reconnect_count, faults, run_faults, auxVars>>

\* is_hw_encode_ after the description was assembled (lines 146-183): only the
\* re-encode branch assigns it
HwFlagAfterBuild(m, old) ==
    CASE m = "reencode_hw" -> TRUE
      [] m = "reencode_sw" -> FALSE
      [] OTHER             -> old

\* rtsp_pipeline.cpp:269-270 with build_pipeline (74-217) succeeding
SupBuildOk ==
    /\ ~crashed /\ pc = "build"
    /\ is_hw_encode_' = HwFlagAfterBuild(mode, is_hw_encode_)
    /\ pipeline_' = "ptr"
    /\ graph' = "ready"
    /\ encoder_' = EncoderLookup(mode)
    /\ enc_prop' = InitialEncProp(mode)
    /\ pc' = "set_playing"
    /\ UNCHANGED <<workerFrame, running_, pipeline_ok, msg, elapsed,
                   stats_connected, reconnect_count, faults, run_faults, auxVars>>

\* rtsp_pipeline.cpp:269-275 with gst_parse_launch reporting an error
\* (192-198): build_pipeline throws after assigning pipeline_ (a partial
\* graph or NULL); encoder_ keeps its previous value
SupBuildFail ==
    /\ ~crashed /\ pc = "build"
    /\ faults < MaxFaults
    /\ is_hw_encode_' = HwFlagAfterBuild(mode, is_hw_encode_)
    /\ \E partial \in BOOLEAN :
          IF partial THEN pipeline_' = "ptr" /\ graph' = "ready"
                     ELSE pipeline_' = "nullptr" /\ graph' = "none"
    /\ faults' = faults + 1
    /\ run_faults' = run_faults + 1
    /\ pc' = "rc_entry"
    /\ UNCHANGED <<workerFrame, running_, encoder_, enc_prop, pipeline_ok, msg,
                   elapsed, stats_connected, reconnect_count, auxVars>>

\* rtsp_pipeline.cpp:277-278, gst_element_set_state(PLAYING) not failing
SupSetPlayingOk ==
    /\ ~crashed /\ pc = "set_playing"
    /\ graph' = "playing"
    /\ pc' = "store_running"
    /\ UNCHANGED <<workerFrame, running_, pipeline_, encoder_, enc_prop,
                   is_hw_encode_, pipeline_ok, msg, elapsed, stats_connected,
                   reconnect_count, faults, run_faults, auxVars>>

\* rtsp_pipeline.cpp:277-279, GST_STATE_CHANGE_FAILURE
SupSetPlayingFail ==
    /\ ~crashed /\ pc = "set_playing"
    /\ faults < MaxFaults
    /\ faults' = faults + 1
    /\ run_faults' = run_faults + 1
    /\ pc' = "fail_unref"
    /\ UNCHANGED <<workerFrame, running_, pipeline_, graph, encoder_, enc_prop,
                   is_hw_encode_, pipeline_ok, msg, elapsed, stats_connected,
                   reconnect_count, auxVars>>

\* rtsp_pipeline.cpp:280
SupFailUnref ==
    /\ ~crashed /\ pc = "fail_unref"
    /\ graph' = "released"
    /\ pc' = "fail_clear"
    /\ UNCHANGED <<workerFrame, running_, pipeline_, encoder_, enc_prop,
                   is_hw_encode_, pipeline_ok, msg, elapsed, stats_connected,
                   reconnect_count, faults, run_faults, auxVars>>

\* rtsp_pipeline.cpp:281-283
SupFailClear ==
    /\ ~crashed /\ pc = "fail_clear"
    /\ pipeline_' = "nullptr"
    /\ pc' = "rc_entry"
    /\ UNCHANGED <<workerFrame, running_, graph, encoder_, enc_prop,
                   is_hw_encode_, pipeline_ok, msg, elapsed, stats_connected,
                   reconnect_count, faults, run_faults, auxVars>>

\* rtsp_pipeline.cpp:287-292
SupStoreRunning ==
    /\ ~crashed /\ pc = "store_running"
    /\ running_' = TRUE
    /\ pipeline_ok' = TRUE
    /\ msg' = "none"
    /\ pc' = "poll_check"
    /\ UNCHANGED <<workerFrame, pipeline_, graph, encoder_, enc_prop,
                   is_hw_encode_, elapsed, stats_connected, reconnect_count,
                   faults, run_faults, auxVars>>

\* a message loop that does not look at the stop flag
LoopIgnoresStop(stop, ok) == ok

\* rtsp_pipeline.cpp:294, the condition of the message loop
LoopContinues(stop, ok) == ~stop /\ ok

SupPollCheck ==
    /\ ~crashed /\ pc = "poll_check"
    /\ pc' = IF LoopContinues(stop_requested_, pipeline_ok) THEN "pop"
                                                             ELSE "td_bus"
    /\ msg' = "none"
    /\ UNCHANGED <<workerFrame, running_, pipeline_, graph, encoder_, enc_prop,
                   is_hw_encode_, pipeline_ok, elapsed, stats_connected,
                   reconnect_count, faults, run_faults, auxVars>>

\* a message loop that also gives up on a WARNING
EndsLoopOnWarning(m) == m \in {"ERROR", "EOS", "WARNING"}

\* rtsp_pipeline.cpp:299-302: which message types end the message loop
EndsLoop(m) == m \in {"ERROR", "EOS"}

\* rtsp_pipeline.cpp:295-304 with handle_bus_message (330-368, logging only);
\* "none" is the 500 ms timeout
SupPop ==
    /\ ~crashed /\ pc = "pop"
    /\ \E m \in BusMsgs :
          /\ EndsLoop(m) => faults < MaxFaults
          /\ msg' = m
          /\ pipeline_ok' = IF EndsLoop(m) THEN FALSE ELSE pipeline_ok
          /\ faults' = IF EndsLoop(m) THEN faults + 1 ELSE faults
          /\ run_faults' = IF EndsLoop(m) THEN run_faults + 1 ELSE run_faults
    /\ pc' = "poll_check"
    /\ UNCHANGED <<workerFrame, running_, pipeline_, graph, encoder_, enc_prop,
                   is_hw_encode_, elapsed, stats_connected, reconnect_count, auxVars>>

\* rtsp_pipeline.cpp:307-308
SupTdBus ==
    /\ ~crashed /\ pc = "td_bus"
    /\ running_' = FALSE
    /\ pc' = "td_stats"
    /\ UNCHANGED <<workerFrame, pipeline_, graph, encoder_, enc_prop,
                   is_hw_encode_, pipeline_ok, msg, elapsed, stats_connected,
                   reconnect_count, faults, run_faults, auxVars>>

\* rtsp_pipeline.cpp:310-313
SupTdStats ==
    /\ ~crashed /\ pc = "td_stats"
    /\ stats_connected' = FALSE
    /\ pc' = "td_state"
    /\ UNCHANGED <<workerFrame, running_, pipeline_, graph, encoder_, enc_prop,
                   is_hw_encode_, pipeline_ok, msg, elapsed, reconnect_count,
                   faults, run_faults, auxVars>>

\* rtsp_pipeline.cpp:316
SupTdState ==
    /\ ~crashed /\ pc = "td_state"
    /\ graph' = "ready"
    /\ pc' = "td_unref"
    /\ UNCHANGED <<workerFrame, running_, pipeline_, encoder_, enc_prop,
                   is_hw_encode_, pipeline_ok, msg, elapsed, stats_connected,
                   reconnect_count, faults, run_faults, auxVars>>

\* rtsp_pipeline.cpp:317
SupTdUnref ==
    /\ ~crashed /\ pc = "td_unref"
    /\ graph' = "released"
    /\ pc' = "td_clear"
    /\ UNCHANGED <<workerFrame, running_, pipeline_, encoder_, enc_prop,
                   is_hw_encode_, pipeline_ok, msg, elapsed, stats_connected,
                   reconnect_count, faults, run_faults, auxVars>>

\* rtsp_pipeline.cpp:318-319
SupTdClear ==
    /\ ~crashed /\ pc = "td_clear"
    /\ pipeline_' = "nullptr"
    /\ pc' = "td_check"
    /\ UNCHANGED <<workerFrame, running_, graph, encoder_, enc_prop,
                   is_hw_encode_, pipeline_ok, msg, elapsed, stats_connected,
                   reconnect_count, faults, run_faults, auxVars>>

\* rtsp_pipeline.cpp:321-325 (pipeline_ok goes out of scope: the model resets
\* it to its initial value). With stop requested the reconnect is skipped and
\* the loop condition (268) is evaluated next; stop_requested_ stays true
\* while the worker lives, so that evaluation ends the loop.
SupTdCheck ==
    /\ ~crashed /\ pc = "td_check"
    /\ pc' = IF ~stop_requested_ THEN "rc_entry" ELSE "done"
    /\ pipeline_ok' = TRUE
    /\ UNCHANGED <<workerFrame, running_, pipeline_, graph, encoder_, enc_prop,
                   is_hw_encode_, msg, elapsed, stats_connected,
                   reconnect_count, faults, run_faults, auxVars>>

\* rtsp_pipeline.cpp:371 (attempt_reconnect's early return, then 268 as above)
SupRcEntry ==
    /\ ~crashed /\ pc = "rc_entry"
    /\ pc' = IF stop_requested_ THEN "done" ELSE "rc_count"
    /\ UNCHANGED <<workerFrame, running_, pipeline_, graph, encoder_, enc_prop,
                   is_hw_encode_, pipeline_ok, msg, elapsed, stats_connected,
                   reconnect_count, faults, run_faults, auxVars>>

\* a reconnect that is not counted
CountNotAdvanced(n) == n

\* rtsp_pipeline.cpp:375  stats_.reconnect_count++
CountAdvanced(n) == n + 1

\* rtsp_pipeline.cpp:373-382
SupRcCount ==
    /\ ~crashed /\ pc = "rc_count"
    /\ reconnect_count' = CountAdvanced(reconnect_count)
    /\ elapsed' = 0
    /\ pc' = "rc_sleep"
    /\ UNCHANGED <<workerFrame, running_, pipeline_, graph, encoder_, enc_prop,
                   is_hw_encode_, pipeline_ok, msg, stats_connected, faults,
                   run_faults, auxVars>>

\* rtsp_pipeline.cpp:383-386: one evaluation of the sleep loop's condition,
\* and one 100 ms slice when it holds
SupRcSleep ==
    /\ ~crashed /\ pc = "rc_sleep"
    /\ IF elapsed < reconnect_interval_ms
         THEN IF ~stop_requested_
                THEN elapsed' = elapsed + SleepSliceMs /\ pc' = "rc_sleep"
                ELSE elapsed' = 0 /\ pc' = "done"
         ELSE elapsed' = 0 /\ pc' = "loop"
    /\ UNCHANGED <<workerFrame, running_, pipeline_, graph, encoder_, enc_prop,
                   is_hw_encode_, pipeline_ok, msg, stats_connected,
                   reconnect_count, faults, run_faults, auxVars>>

Worker ==
    \/ SupEntry \/ SupLoop \/ SupBuildOk \/ SupBuildFail
    \/ SupSetPlayingOk \/ SupSetPlayingFail \/ SupFailUnref \/ SupFailClear
    \/ SupStoreRunning \/ SupPollCheck \/ SupPop
    \/ SupTdBus \/ SupTdStats \/ SupTdState \/ SupTdUnref \/ SupTdClear
    \/ SupTdCheck \/ SupRcEntry \/ SupRcCount \/ SupRcSleep

(***************************************************************************)
(* PeerConnection / WebRtcServer: helpers                                  *)
(***************************************************************************)
\* uint32 arithmetic on two 16-bit halves [hi, lo]
Half == 65536
U32(h, l) == [hi |-> h, lo |-> l]
Add32(a, b) ==
    LET l == a.lo + b.lo
        c == IF l >= Half THEN 1 ELSE 0
    IN  [hi |-> (a.hi + b.hi + c) % Half, lo |-> l % Half]
Lt32(a, b) == a.hi < b.hi \/ (a.hi = b.hi /\ a.lo < b.lo)

\* peer_connection.cpp:7
FirstSsrc == U32(0, 42)

\* peer_connection.cpp:16  next_ssrc_.fetch_add(1): the counter after the call
FetchAdd1(c) == Add32(c, U32(0, 1))

\* peer_connection.cpp:10-18 and peer_connection.hpp:69-71: a freshly
\* constructed PeerConnection bound to socket s. pts_sent and track_sent
\* remember the timestamp_us argument of the last send_h264_nal call that
\* reached the track and the NALs the track was given;
\* remote_descriptions counts the answers pc_ has installed,
\* remote_candidates the candidates it was given,
\* keyframes_sent the keyframe_sent() calls, and
\* sends_failed the video_track_->send calls that threw.
NewPeer(s, ssrc) ==
    [sock |-> s, ssrc |-> ssrc, connected_ |-> FALSE, closed_ |-> FALSE,
     state |-> "new", needs_keyframe_ |-> TRUE, track_open |-> FALSE,
     offer_pending |-> FALSE, rtp_packets_sent |-> 0, bytes_sent |-> 0,
     rtp_timestamp |-> << >>, pts_sent |-> << >>,
     track_sent |-> << >>, remote_descriptions |-> 0, remote_candidates |-> 0,
     keyframes_sent |-> 0, sends_failed |-> 0]

\* peers_[id] = peer
MapPut(m, id, v) == [i \in (DOMAIN m) \cup {id} |-> IF i = id THEN v ELSE m[i]]
\* peers_.erase(id)
MapErase(m, id) == [i \in (DOMAIN m) \ {id} |-> m[i]]
EmptyMap == [i \in {} |-> 0]

(***************************************************************************)
(* Unsigned integers wider than the checker's, as little-endian sequences  *)
(* of bytes: uint64_t is 8 bytes, uint32_t is 4                            *)
(***************************************************************************)
Byte == 256
\* rtc::H264RtpPacketizer::defaultClockRate
ClockRate == 90000
MicrosPerSecond == 1000000

\* the n-byte representation of a small number
RECURSIVE ToBytes(_, _)
ToBytes(v, n) ==
    IF n = 0 THEN << >> ELSE <<v % Byte>> \o ToBytes(v \div Byte, n - 1)

\* x widened with zero bytes to n bytes
Widen(x, n) == x \o [i \in 1..(n - Len(x)) |-> 0]

\* x * k in the width of x (the bytes from position i on, given the carry):
\* what overflows the width is dropped, as in unsigned C++ arithmetic
RECURSIVE MulFrom(_, _, _, _)
MulFrom(x, k, i, carry) ==
    IF i > Len(x) THEN << >>
    ELSE LET v == x[i] * k + carry
         IN  <<v % Byte>> \o MulFrom(x, k, i + 1, v \div Byte)
MulWrap(x, k) == MulFrom(x, k, 1, 0)

\* x + k in the width of x
RECURSIVE AddFrom(_, _, _)
AddFrom(x, i, carry) ==
    IF i > Len(x) THEN << >>
    ELSE LET v == x[i] + carry
         IN  <<v % Byte>> \o AddFrom(x, i + 1, v \div Byte)
AddWrap(x, k) == AddFrom(x, 1, k)

\* x / d rounded towards zero (the bytes up to position i, given the
\* remainder of the higher ones)
RECURSIVE DivFrom(_, _, _, _)
DivFrom(x, d, i, rem) ==
    IF i = 0 THEN << >>
    ELSE LET v == rem * Byte + x[i]
         IN  DivFrom(x, d, i - 1, v % d) \o <<v \div d>>
DivTrunc(x, d) == DivFrom(x, d, Len(x), 0)

\* static_cast<uint32_t>
Low32(x) == SubSeq(x, 1, 4)

U64(v) == ToBytes(v, 8)

\* peer_connection.cpp:179-180: the product is formed in uint64_t, divided
\* by 1'000'000 and cast to uint32_t
RtpTimestamp(ts) == Low32(DivTrunc(MulWrap(ts, ClockRate), MicrosPerSecond))

\* a critical section that does not wait for the lock
LockIgnored(m) == TRUE

\* std::lock_guard<std::mutex> lock(peers_mutex_) (webrtc_server.cpp:26, 49,
\* 59, 71, 81, 90, 111, 138): the critical section is entered only when no
\* other thread holds the mutex
LockFree(m) == m = "free"

\* no broadcast_nal call is in progress
NoBroadcast ==
    [active |-> FALSE, nal |-> [seq |-> 0, ts |-> << >>, size |-> 0],
     todo |-> {}, snap |-> {}, visited |-> {}]

\* a send_h264_nal without its early return
SendNalUnguarded(p, nal) ==
    [p EXCEPT !.rtp_timestamp = RtpTimestamp(nal.ts),
              !.pts_sent = nal.ts,
              !.track_sent = Append(@, nal.seq),
              !.rtp_packets_sent = @ + 1,
              !.bytes_sent = @ + nal.size]

\* a send_h264_nal that returns early only when the session is not connected
SendNalConnectedOnly(p, nal) ==
    IF ~p.connected_
      THEN p
      ELSE [p EXCEPT !.rtp_timestamp = RtpTimestamp(nal.ts),
                     !.pts_sent = nal.ts,
                     !.track_sent = Append(@, nal.seq),
                     !.rtp_packets_sent = @ + 1,
                     !.bytes_sent = @ + nal.size]

\* peer_connection.cpp:172-195  send_h264_nal of the NAL
\* [seq, ts, size]: the early return, else the timestamp, the hand-over to
\* the track and the statistics
SendNal(p, nal) ==
    IF ~p.connected_ \/ ~p.track_open
      THEN p
      ELSE [p EXCEPT !.rtp_timestamp = RtpTimestamp(nal.ts),
                     !.pts_sent = nal.ts,
                     !.track_sent = Append(@, nal.seq),
                     !.rtp_packets_sent = @ + 1,
                     !.bytes_sent = @ + nal.size]

\* peer_connection.cpp:172-195 when video_track_->send throws (line 184):
\* the timestamp was written at 179-180, the statistics block (187-191) is
\* skipped, the exception is caught and logged (192-194)
SendNalThrows(p, nal) ==
    IF ~p.connected_ \/ ~p.track_open
      THEN p
      ELSE [p EXCEPT !.rtp_timestamp = RtpTimestamp(nal.ts),
                     !.pts_sent = nal.ts,
                     !.sends_failed = @ + 1]

\* webrtc_server.cpp:89-96  broadcast_nal: the map after one NAL
BroadcastNal(m, nal) ==
    [i \in DOMAIN m |-> IF m[i].connected_ THEN SendNal(m[i], nal) ELSE m[i]]

(***************************************************************************)
(* RtspPipeline: start, stop, set_bitrate, on_new_sample                   *)
(***************************************************************************)
\* rtsp_pipeline.cpp:20-29. Assigning a new std::thread to a joinable thread_
\* calls std::terminate. (The calls start() and stop() of the three
\* components leave the caller's position in main() to AnyCaller/MainCalls.)
Start ==
    /\ ~crashed /\ mainPc = "idle"
    /\ IF running_
         THEN UNCHANGED <<stop_requested_, crashed, thread_joinable, pc, run_faults>>
         ELSE /\ stop_requested_' = FALSE
              /\ IF thread_joinable
                   THEN /\ crashed' = TRUE
                        /\ UNCHANGED <<thread_joinable, pc, run_faults>>
                   ELSE /\ thread_joinable' = TRUE
                        /\ pc' = "entry"
                        /\ run_faults' = 0
                        /\ crashed' = crashed
    /\ UNCHANGED <<mode, reconnect_max_attempts, running_, pipeline_, graph,
                   encoder_, enc_prop, is_hw_encode_, pipeline_ok, msg, elapsed,
                   stats_connected, reconnect_count, frames_received, mainPc,
                   sbPc, sb_k, faults, regVars, sigVars, auxVars>>

\* the variables no step of stop() writes
stopFrame == <<mode, reconnect_max_attempts, enc_prop, is_hw_encode_, pipeline_ok,
               msg, elapsed, stats_connected, reconnect_count, frames_received,
               sbPc, sb_k, faults, run_faults, regVars, sigVars>>

\* rtsp_pipeline.cpp:32
StopRequest ==
    /\ ~crashed /\ mainPc = "idle"
    /\ stop_requested_' = TRUE
    /\ mainPc' = "st_running"
    /\ UNCHANGED <<stopFrame, pc, thread_joinable, running_, pipeline_, graph,
                   encoder_, crashed, auxVars>>

\* rtsp_pipeline.cpp:33
StopRunning ==
    /\ ~crashed /\ mainPc = "st_running"
    /\ running_' = FALSE
    /\ mainPc' = "st_state"
    /\ UNCHANGED <<stopFrame, sdPc, pc, thread_joinable, stop_requested_, pipeline_,
                   graph, encoder_, crashed, auxVars>>

\* rtsp_pipeline.cpp:35-37. The worker may have released the graph pipeline_
\* still points to (between its unref and its pipeline_ = nullptr): the call
\* then uses freed memory, which may crash or pass unnoticed.
StopSetNull ==
    /\ ~crashed /\ mainPc = "st_state"
    /\ IF pipeline_ = "ptr"
         THEN IF graph = "released"
                THEN crashed' \in BOOLEAN /\ graph' = graph
                ELSE crashed' = crashed /\ graph' = "ready"
         ELSE crashed' = crashed /\ graph' = graph
    /\ mainPc' = "st_join"
    /\ UNCHANGED <<stopFrame, sdPc, pc, thread_joinable, running_, stop_requested_,
                   pipeline_, encoder_, auxVars>>

\* rtsp_pipeline.cpp:39-41: join() returns once the worker has left
\* pipeline_thread
StopJoin ==
    /\ ~crashed /\ mainPc = "st_join"
    /\ IF thread_joinable
         THEN pc = "done" /\ pc' = "none" /\ thread_joinable' = FALSE
         ELSE UNCHANGED <<pc, thread_joinable>>
    /\ mainPc' = "st_final"
    /\ UNCHANGED <<stopFrame, sdPc, running_, stop_requested_, pipeline_, graph,
                   encoder_, crashed, auxVars>>

\* rtsp_pipeline.cpp:43-48
StopFinal ==
    /\ ~crashed /\ mainPc = "st_final"
    /\ IF pipeline_ = "ptr"
         THEN /\ graph' = "released"
              /\ pipeline_' = "nullptr"
              /\ encoder_' = "nullptr"
         ELSE UNCHANGED <<graph, pipeline_, encoder_>>
    /\ mainPc' = "idle"
    /\ UNCHANGED <<stopFrame, sdPc, pc, thread_joinable, running_, stop_requested_,
                   crashed, auxVars>>

\* the variables no step of set_bitrate writes
sbFrame == <<mode, reconnect_max_attempts, pc, thread_joinable, running_,
             stop_requested_, pipeline_, graph, encoder_, is_hw_encode_,
             pipeline_ok, msg, elapsed, stats_connected, reconnect_count,
             frames_received, mainPc, crashed, sdPc, faults, run_faults,
             regVars, sigVars>>

\* a caller enters set_bitrate(k)  (rtsp_pipeline.cpp:51)
SetBitrateCall ==
    /\ ~crashed /\ sbPc = "idle"
    /\ \E k \in BitrateInputs : sb_k' = k
    /\ sbPc' = "called"
    /\ UNCHANGED <<sbFrame, enc_prop, auxVars>>

\* a guard that forgot to look at running_
GuardWithoutRunning == encoder_ = "nullptr"

\* rtsp_pipeline.cpp:52
SetBitrateGuard == encoder_ = "nullptr" \/ ~running_

SetBitrateCheck ==
    /\ ~crashed /\ sbPc = "called"
    /\ IF SetBitrateGuard THEN sbPc' = "idle" /\ sb_k' = 0
                          ELSE sbPc' = "apply" /\ sb_k' = sb_k
    /\ UNCHANGED <<sbFrame, enc_prop, auxVars>>

\* rtsp_pipeline.cpp:54-66. g_object_set on a NULL object (stop() cleared
\* encoder_ meanwhile) is rejected by GLib and writes nothing.
SetBitrateApply ==
    /\ ~crashed /\ sbPc = "apply"
    /\ enc_prop' = IF encoder_ = "ptr" THEN AppliedValue(sb_k, is_hw_encode_)
                                       ELSE enc_prop
    /\ sb_hinted' = (sb_hinted \/ (encoder_ = "ptr" /\ Clamp(sb_k) # bitrate_kbps))
    /\ sbPc' = "idle"
    /\ sb_k' = 0
    /\ UNCHANGED <<sbFrame, peers_mutex_, bc, rate_in, rate_out, http_uri,
                   http_resp, lockVars>>

\* an appsink that raises new-sample in whatever state its graph is
StreamsOnceBuilt(g) == g # "none"

\* an appsink that also delivers from a graph that is built but not playing
StreamsUnlessReleased(g) == g \in {"ready", "playing"}

\* rtsp_pipeline.cpp:211-214 and 277: the appsink calls new_sample from the
\* streaming thread, which runs only while the graph is PLAYING
Streams(g) == g = "playing"

\* rtsp_pipeline.cpp:236-243: the timestamps in microseconds a buffer can
\* carry (its PTS / 1000, or the steady clock): 11 us, 1 s, 2^48 us
PtsInputs == {U64(11), U64(MicrosPerSecond), <<0, 0, 0, 0, 0, 0, 1, 0>>}
\* map.size of a buffer
NalSizes == {1, 2}

\* rtsp_pipeline.cpp:219-263: the appsink hands over a sample of `size` bytes
\* stamped `ts` while the graph is playing; the NAL callback is
\* WebRtcServer::broadcast_nal (main.cpp:98-102), one critical section under
\* peers_mutex_ taken here as one step. At most `max` samples.
NewSample(ts, size, max) ==
    /\ ~crashed /\ Streams(graph)
    /\ frames_received < max
    /\ LockFree(peers_mutex_)
    /\ peers' = BroadcastNal(peers, [seq |-> frames_received + 1, ts |-> ts,
                                     size |-> size])
    /\ frames_received' = frames_received + 1
    /\ stats_connected' = TRUE
    /\ UNCHANGED <<mode, reconnect_max_attempts, pc, thread_joinable, running_,
                   stop_requested_, pipeline_, graph, encoder_, enc_prop,
                   is_hw_encode_, pipeline_ok, msg, elapsed, reconnect_count,
                   mainPc, sbPc, sb_k, crashed, sdPc, faults, run_faults,
                   next_ssrc_, reg_running_, cleanupPc, churned, sigVars, auxVars>>

\* The same call step by step. rtsp_pipeline.cpp:219-247 and
\* webrtc_server.cpp:90: a sample arrives and broadcast_nal takes
\* peers_mutex_; its loop will visit the entries the map has now
BcLock(ts, size, max) ==
    /\ ~crashed /\ Streams(graph)
    /\ frames_received < max
    /\ ~bc.active
    /\ LockFree(peers_mutex_)
    /\ peers_mutex_' = "media"
    /\ bc' = [active |-> TRUE,
              nal |-> [seq |-> frames_received + 1, ts |-> ts, size |-> size],
              todo |-> DOMAIN peers, snap |-> DOMAIN peers, visited |-> {}]
    /\ UNCHANGED <<pipeVars, regVars, sigVars, rate_in, rate_out, http_uri,
                   http_resp, noteVars>>

\* webrtc_server.cpp:91-95: one iteration of the loop, with send_h264_nal
\* (peer_connection.cpp:172-195) whose track send succeeds or throws. An
\* entry that is no longer in the map has nothing to visit.
BcVisit(id, ok) ==
    /\ bc.active /\ id \in bc.todo
    /\ peers' = IF id \in DOMAIN peers /\ peers[id].connected_
                  THEN [peers EXCEPT ![id] = IF ok THEN SendNal(@, bc.nal)
                                                   ELSE SendNalThrows(@, bc.nal)]
                  ELSE peers
    /\ bc' = [bc EXCEPT !.todo = @ \ {id}, !.visited = @ \cup {id}]
    /\ UNCHANGED <<pipeVars, next_ssrc_, reg_running_, cleanupPc, churned,
                   sigVars, peers_mutex_, rate_in, rate_out, http_uri, http_resp,
                   noteVars>>

\* webrtc_server.cpp:96 and rtsp_pipeline.cpp:250-256: the loop is over, the
\* lock is released and on_new_sample updates the pipeline's statistics
BcUnlock ==
    /\ bc.active /\ bc.todo = {}
    /\ peers_mutex_' = "free"
    /\ bc' = NoBroadcast
    /\ frames_received' = frames_received + 1
    /\ stats_connected' = TRUE
    /\ UNCHANGED <<mode, reconnect_max_attempts, pc, thread_joinable, running_,
                   stop_requested_, pipeline_, graph, encoder_, enc_prop,
                   is_hw_encode_, pipeline_ok, msg, elapsed, reconnect_count,
                   mainPc, sbPc, sb_k, crashed, sdPc, faults, run_faults,
                   regVars, sigVars, rate_in, rate_out, http_uri, http_resp,
                   noteVars>>

\* a sample with the first of the timestamps and sizes
OnNewSample == NewSample(U64(0), 1, MaxFrames)

\* a call made by the thread that owns the components when it is not inside
\* another call, without following it through main()
AnyCaller(A) == mainPc = "idle" /\ A /\ UNCHANGED sdPc

Caller ==
    \/ AnyCaller(Start) \/ AnyCaller(StopRequest) \/ StopRunning \/ StopSetNull \/ StopJoin \/ StopFinal
    \/ SetBitrateCall \/ SetBitrateCheck \/ SetBitrateApply

(***************************************************************************)
(* Specification of the ingest pipeline alone (no client connects)         *)
(***************************************************************************)
Clients == {"A", "B", "C"}
\* the ids generate_peer_id hands out to them here (FreshId below)
PeerIds == {"peer-a", "peer-b", "peer-c"}

RegInit ==
    /\ peers = EmptyMap
    /\ next_ssrc_ = FirstSsrc
    /\ reg_running_ = FALSE
    /\ cleanupPc = "none"
    /\ churned = 0

SigInit ==
    /\ sig_running_ = FALSE
    /\ ws_server_ = "nullptr"
    /\ clients_ = EmptyMap
    /\ wsState = [c \in Clients |-> "none"]
    /\ occPc = [c \in Clients |-> "idle"]
    /\ occPeer = [c \in Clients |-> ""]
    /\ wsHandlers = [c \in Clients |-> FALSE]
    /\ cbPending = [c \in Clients |-> "none"]
    /\ sendCalls = [c \in Clients |-> << >>]
    /\ msgCount = [c \in Clients |-> 0]
    /\ bitrate_cb_calls = << >>
    /\ msgLog = [c \in Clients |-> << >>]
    /\ bitrate_msgs = << >>

LockInit ==
    /\ peers_mutex_ = "free"
    /\ bc = NoBroadcast

\* no set_bitrate call is looked at on its own
RateIdle ==
    /\ rate_in = [k |-> 0, max |-> max_bitrate_kbps, hw |-> FALSE]
    /\ rate_out = [done |-> FALSE, trapped |-> FALSE, written |-> << >>]

\* no HTTP request is looked at
HttpIdle ==
    /\ http_uri = << >>
    /\ http_resp = [done |-> FALSE, status |-> 0, file |-> << >>]

\* no set_bitrate call has reached an encoder, every mutex is free and no
\* thread is inside a call
NoteInit ==
    /\ sb_hinted = FALSE
    /\ clients_mutex_ = "free"
    /\ stats_mutex_ = [id \in PeerIds |-> "free"]
    /\ lkPc = [t \in {"main", "media", "reaper", "state"} \cup Clients |-> "idle"]
    /\ lkArg = [t \in {"main", "media", "reaper", "state"} \cup Clients |->
                 [id |-> "", st |-> ""]]
    /\ lkTodo = [t \in {"main", "media", "reaper", "state"} \cup Clients |-> {}]

AuxInit == LockInit /\ RateIdle /\ HttpIdle /\ NoteInit

Init == PipeInit /\ RegInit /\ SigInit /\ AuxInit

NextPipe ==
    \/ SupEntry \/ SupLoop \/ SupBuildOk \/ SupBuildFail
    \/ SupSetPlayingOk \/ SupSetPlayingFail \/ SupFailUnref \/ SupFailClear
    \/ SupStoreRunning \/ SupPollCheck \/ SupPop
    \/ SupTdBus \/ SupTdStats \/ SupTdState \/ SupTdUnref \/ SupTdClear
    \/ SupTdCheck \/ SupRcEntry \/ SupRcCount \/ SupRcSleep
    \/ AnyCaller(Start) \/ AnyCaller(StopRequest) \/ StopRunning \/ StopSetNull \/ StopJoin \/ StopFinal
    \/ SetBitrateCall \/ SetBitrateCheck \/ SetBitrateApply
    \/ OnNewSample

SpecPipe == Init /\ [][NextPipe]_vars

(***************************************************************************)
(* WebRtcServer and SignalingServer: bounds and helpers                    *)
(***************************************************************************)
\* webrtc.max_peers, scaled down to two
max_peers == 2
\* text frames a client sends on one socket
MaxMsgs == 2

\* generate_peer_id (webrtc_server.cpp:9-17) for the connection of socket c,
\* taken here to be a value not handed out before
FreshId(c) ==
    CASE c = "A" -> "peer-a" [] c = "B" -> "peer-b" [] c = "C" -> "peer-c"

\* the off-by-one variant of the admission test
AtCapOffByOne(n) == n > max_peers
\* webrtc_server.cpp:29  static_cast<int>(peers_.size()) >= max_peers
AtCap(n) == n >= max_peers

\* a handler that greets every socket, admitted or not
AfterCreateAlwaysWelcome(id) == "welcome"
\* signaling_server.cpp:93  if (peer_id.empty()) { ... return; }
AfterCreate(id) == IF id = "" THEN "reject" ELSE "welcome"

\* ws->send(m) on socket c: the call is made; the frame goes out only if the
\* socket is still open (send throws otherwise)
SendLog(c, m) == [sendCalls EXCEPT ![c] = Append(@, m)]

\* the state-change notifications the transport raises in this model
StateInputs == {"connected", "failed"}
\* the kinds of frame a client sends
MsgKinds == {"answer", "candidate", "ping", "bitrate", "other", "malformed"}
\* rtc::PeerConnection::State, the values onStateChange can report
\* (peer_connection.cpp:62-69) after the initial "new"
PeerStates == {"connecting", "connected", "disconnected", "failed", "closed"}
\* an answer the peer connection accepts and one it refuses
AnswerKinds == {"answer", "answer_rejected"}
\* the frames on which something below on_client_message fails
FailingKinds == {"answer_rejected", "candidate_bad", "ping_unsendable"}
\* keyframe_sent() calls on one session in one run
MaxKeyframes == 2
\* the appsink delivers at most MaxNals samples in a run
MaxNals == 2

(***************************************************************************)
(* SignalingServer and WebRtcServer: start                                 *)
(***************************************************************************)
\* signaling_server.cpp:19-39, called by main after WebRtcServer::start
\* (main.cpp:112-117)
SigStart ==
    /\ reg_running_ /\ ~sig_running_
    /\ ws_server_' = "ptr"
    /\ sig_running_' = TRUE
    /\ UNCHANGED <<pipeState, regVars, clients_, wsState, occPc, occPeer,
                   wsHandlers, cbPending, sendCalls, msgCount,
                   bitrate_cb_calls, msgLog, bitrate_msgs, auxVars>>

\* webrtc_server.cpp:98-102
RegStart ==
    /\ ~reg_running_ /\ cleanupPc = "none"
    /\ reg_running_' = TRUE
    /\ cleanupPc' = "loop"
    /\ UNCHANGED <<pipeState, peers, next_ssrc_, churned, sigVars, auxVars>>

(***************************************************************************)
(* SignalingServer::on_client_connected, one call per accepted socket      *)
(***************************************************************************)
\* signaling_server.cpp:27-29: the listener hands over the socket of a new
\* client and on_client_connected is entered; the listener accepts from
\* line 25 until ws_server_->stop() (line 55), whatever running_ says
Accept(c) ==
    /\ ws_server_ = "ptr" /\ wsState[c] = "none"
    /\ wsState' = [wsState EXCEPT ![c] = "open"]
    /\ occPc' = [occPc EXCEPT ![c] = "create"]
    /\ UNCHANGED <<pipeVars, regVars, sig_running_, ws_server_, clients_, occPeer,
                   wsHandlers, cbPending, sendCalls, msgCount,
                   bitrate_cb_calls, msgLog, bitrate_msgs, auxVars>>

\* webrtc_server.cpp:25-46  create_peer with the generated id, for socket s:
\* the map afterwards (peers_[peer_id] = peer replaces an entry of that id)
\* and the id returned ("" at the cap or when the constructor throws)
\* a create_peer that puts the entry into the map before the session is built
CreatePeerMapEntryFirst(m, id, s, ssrc, ctor_ok) ==
    IF AtCap(Cardinality(DOMAIN m)) THEN m ELSE MapPut(m, id, NewPeer(s, ssrc))

CreatePeerMap(m, id, s, ssrc, ctor_ok) ==
    IF AtCap(Cardinality(DOMAIN m)) \/ ~ctor_ok
      THEN m
      ELSE MapPut(m, id, NewPeer(s, ssrc))
CreatePeerId(m, id, ctor_ok) ==
    IF AtCap(Cardinality(DOMAIN m)) \/ ~ctor_ok THEN "" ELSE id

\* webrtc_server.cpp:80-87  remove_peer
RemovePeer(m, id) == MapErase(m, id)

\* signaling_server.cpp:91 and webrtc_server.cpp:25-46 (create_peer, under
\* peers_mutex_) with peer_connection.cpp:10-18: the constructor takes the
\* SSRC before setup_connection, which may throw
CreatePeer(c, id, ctor_ok) ==
    /\ occPc[c] = "create"
    /\ LockFree(peers_mutex_)
    /\ peers' = CreatePeerMap(peers, id, c, next_ssrc_, ctor_ok)
    /\ occPeer' = [occPeer EXCEPT ![c] = CreatePeerId(peers, id, ctor_ok)]
    /\ next_ssrc_' = IF AtCap(Cardinality(DOMAIN peers))
                       THEN next_ssrc_ ELSE FetchAdd1(next_ssrc_)
    /\ occPc' = [occPc EXCEPT ![c] = AfterCreate(occPeer'[c])]
    /\ UNCHANGED <<pipeVars, reg_running_, cleanupPc, churned, sig_running_, ws_server_, clients_,
                   wsState, wsHandlers, cbPending, sendCalls,
                   msgCount, bitrate_cb_calls, msgLog, bitrate_msgs, auxVars>>

OccCreate(c) == \E ctor_ok \in BOOLEAN : CreatePeer(c, FreshId(c), ctor_ok)

\* signaling_server.cpp:93-103: send the error, then close; a throwing send
\* skips the close
OccReject(c) ==
    /\ occPc[c] = "reject"
    /\ sendCalls' = SendLog(c, "error")
    /\ wsState' = IF wsState[c] = "open"
                    THEN [wsState EXCEPT ![c] = "closed"] ELSE wsState
    /\ occPc' = [occPc EXCEPT ![c] = "done"]
    /\ UNCHANGED <<pipeVars, regVars, sig_running_, ws_server_, clients_, occPeer,
                   wsHandlers, cbPending, msgCount, bitrate_cb_calls, msgLog,
                   bitrate_msgs, auxVars>>

\* signaling_server.cpp:105-152: send the welcome (a throwing send is logged
\* and ignored), store the session in clients_, register onMessage, onClosed
\* and onError
OccWelcome(c) ==
    /\ occPc[c] = "welcome"
    /\ sendCalls' = SendLog(c, "welcome")
    /\ clients_' = MapPut(clients_, occPeer[c], c)
    /\ wsHandlers' = [wsHandlers EXCEPT ![c] = TRUE]
    /\ occPc' = [occPc EXCEPT ![c] = "offer"]
    /\ UNCHANGED <<pipeVars, regVars, sig_running_, ws_server_, wsState, occPeer,
                   cbPending, msgCount, bitrate_cb_calls, msgLog, bitrate_msgs, auxVars>>

\* a start_offer that looks the id up with peers_[id]
StartOfferInserting(m, id) ==
    IF id \in DOMAIN m
      THEN [m EXCEPT ![id].offer_pending = TRUE]
      ELSE MapPut(m, id, NewPeer("", FirstSsrc))

\* webrtc_server.cpp:48-56 and peer_connection.cpp:150-154  start_offer
StartOffer(m, id) ==
    IF id \in DOMAIN m
      THEN [m EXCEPT ![id].offer_pending = TRUE]
      ELSE m

\* signaling_server.cpp:156, webrtc_server.cpp:48-56, peer_connection.cpp:150-154:
\* setLocalDescription on the named peer, if it is still in the map
OccStartOffer(c) ==
    /\ occPc[c] = "offer"
    /\ LockFree(peers_mutex_)
    /\ peers' = StartOffer(peers, occPeer[c])
    /\ occPc' = [occPc EXCEPT ![c] = "done"]
    /\ UNCHANGED <<pipeVars, next_ssrc_, reg_running_, cleanupPc, churned,
                   sig_running_, ws_server_, clients_, wsState, occPeer, wsHandlers,
                   cbPending, sendCalls, msgCount, bitrate_cb_calls, msgLog,
                   bitrate_msgs, auxVars>>

\* peer_connection.cpp:49-57 and signaling_server.cpp:66-88: the transport
\* raises onLocalDescription, signaling_cb_ sends the offer on the socket the
\* peer was created for
DeliverOffer(id) ==
    /\ id \in DOMAIN peers /\ peers[id].offer_pending
    /\ peers' = [peers EXCEPT ![id].offer_pending = FALSE]
    /\ sendCalls' = SendLog(peers[id].sock, "offer")
    /\ UNCHANGED <<pipeVars, next_ssrc_, reg_running_, cleanupPc, churned,
                   sig_running_, ws_server_, clients_, wsState, occPc, occPeer, wsHandlers,
                   cbPending, msgCount, bitrate_cb_calls, msgLog, bitrate_msgs, auxVars>>

(***************************************************************************)
(* Client side events and SignalingServer's socket callbacks               *)
(***************************************************************************)
\* the client closes its socket; onClosed (signaling_server.cpp:145-147) is
\* raised only if it was registered by then
ClientClose(c) ==
    /\ wsState[c] = "open"
    /\ wsState' = [wsState EXCEPT ![c] = "closed"]
    /\ cbPending' = IF wsHandlers[c] /\ cbPending[c] = "none"
                      THEN [cbPending EXCEPT ![c] = "erase"] ELSE cbPending
    /\ UNCHANGED <<pipeVars, regVars, sig_running_, ws_server_, clients_, occPc, occPeer,
                   wsHandlers, sendCalls, msgCount,
                   bitrate_cb_calls, msgLog, bitrate_msgs, auxVars>>

\* signaling_server.cpp:195-199  on_client_disconnected, first critical section
OcdErase(c) ==
    /\ cbPending[c] = "erase"
    /\ clients_' = MapErase(clients_, occPeer[c])
    /\ cbPending' = [cbPending EXCEPT ![c] = "remove"]
    /\ UNCHANGED <<pipeVars, regVars, sig_running_, ws_server_, wsState, occPc, occPeer,
                   wsHandlers, sendCalls, msgCount,
                   bitrate_cb_calls, msgLog, bitrate_msgs, auxVars>>

\* signaling_server.cpp:201 and webrtc_server.cpp:80-87  remove_peer
OcdRemove(c) ==
    /\ cbPending[c] = "remove"
    /\ LockFree(peers_mutex_)
    /\ peers' = RemovePeer(peers, occPeer[c])
    /\ cbPending' = [cbPending EXCEPT ![c] = "done"]
    /\ UNCHANGED <<pipeVars, next_ssrc_, reg_running_, cleanupPc, churned,
                   sig_running_, ws_server_, clients_, wsState, occPc, occPeer, wsHandlers,
                   sendCalls, msgCount, bitrate_cb_calls, msgLog,
                   bitrate_msgs, auxVars>>

\* a handle_answer that installs the description and leaves the flag alone
HandleAnswerNoRearm(m, id) ==
    IF id \in DOMAIN m
      THEN [m EXCEPT ![id].remote_descriptions = @ + 1]
      ELSE m

\* webrtc_server.cpp:58-66 and peer_connection.cpp:156-161  handle_answer
\* with an answer that pc_->setRemoteDescription accepts
HandleAnswer(m, id) ==
    IF id \in DOMAIN m
      THEN [m EXCEPT ![id].remote_descriptions = @ + 1,
                     ![id].needs_keyframe_ = TRUE]
      ELSE m

\* peer_connection.hpp:41  keyframe_sent()
KeyframeSent(id) ==
    /\ id \in DOMAIN peers /\ peers[id].keyframes_sent < MaxKeyframes
    /\ peers' = [peers EXCEPT ![id].needs_keyframe_ = FALSE,
                              ![id].keyframes_sent = @ + 1]
    /\ UNCHANGED <<pipeVars, next_ssrc_, reg_running_, cleanupPc, churned,
                   sigVars, auxVars>>

\* webrtc_server.cpp:68-78 and peer_connection.cpp:163-170  handle_candidate
\* with a candidate addRemoteCandidate takes (one it refuses is caught and
\* logged inside handle_candidate, lines 167-169)
HandleCandidate(m, id) ==
    IF id \in DOMAIN m
      THEN [m EXCEPT ![id].remote_candidates = @ + 1]
      ELSE m

\* an on_client_message without its catch
OutcomeNoCatch(kind, known) ==
    IF (kind = "answer_rejected" /\ known)
          \/ kind \in {"ping_unsendable", "malformed"}
      THEN "threw" ELSE "returned"

\* an on_client_message whose catch takes every exception
OutcomeCatchAll(kind, known) == "returned"

\* signaling_server.cpp:162-192: the try block catches json::exception only.
\* handle_answer lets the exception of rtc::Description or
\* setRemoteDescription through (peer_connection.cpp:156-161; it is called
\* only for an id in the map, webrtc_server.cpp:61-62), and so does
\* ws->send of the pong (line 185); json::parse and msg.value throw
\* json::exception, handle_candidate catches its own.
Outcome(kind, known) ==
    IF (kind = "answer_rejected" /\ known) \/ kind = "ping_unsendable"
      THEN "threw" ELSE "returned"

\* signaling_server.cpp:139-143 and 159-193: onMessage hands a text frame of
\* the given kind to on_client_message. A "bitrate" frame matches none of
\* the three branches and ends in the final else (line 186-188). An
\* "answer_rejected" frame is an answer whose SDP rtc::Description or
\* setRemoteDescription refuses: handle_answer throws at
\* peer_connection.cpp:158-159, before the store of line 160. A
\* "candidate_bad" frame carries a candidate addRemoteCandidate refuses, a
\* "ping_unsendable" frame is a ping whose pong ws->send refuses because the
\* socket has gone down underneath. The transport's callback wrapper takes
\* an exception that leaves the handler; the socket and the session stay.
ClientMsg(c, kind) ==
    /\ wsHandlers[c] /\ wsState[c] = "open"
    /\ msgCount[c] < MaxMsgs
    /\ kind \in {"answer", "answer_rejected", "candidate", "candidate_bad"}
          => LockFree(peers_mutex_)
    /\ msgCount' = [msgCount EXCEPT ![c] = @ + 1]
    /\ peers' = CASE kind = "answer" -> HandleAnswer(peers, occPeer[c])
                  [] kind = "candidate" -> HandleCandidate(peers, occPeer[c])
                  [] OTHER -> peers
    /\ sendCalls' = IF kind \in {"ping", "ping_unsendable"}
                      THEN SendLog(c, "pong") ELSE sendCalls
    /\ msgLog' = [msgLog EXCEPT ![c] =
                    Append(@, [kind |-> kind,
                               known |-> occPeer[c] \in DOMAIN peers,
                               outcome |-> Outcome(kind, occPeer[c] \in DOMAIN peers)])]
    /\ IF kind = "bitrate"
         THEN \E k \in BitrateInputs : bitrate_msgs' = Append(bitrate_msgs, k)
         ELSE UNCHANGED bitrate_msgs
    /\ UNCHANGED <<pipeVars, next_ssrc_, reg_running_, cleanupPc, churned,
                   sig_running_, ws_server_, clients_, wsState, occPc, occPeer, wsHandlers,
                   cbPending, bitrate_cb_calls, auxVars>>

(***************************************************************************)
(* PeerConnection state changes and the reaper                             *)
(***************************************************************************)
\* an onStateChange whose closed_ follows the state reported last
OnStateChangeMirror(p, s) ==
    [p EXCEPT !.connected_ = (s = "connected"),
              !.closed_ = (s \in {"closed", "failed"}),
              !.state = s]

\* peer_connection.cpp:60-82  onStateChange
OnStateChange(p, s) ==
    [p EXCEPT !.connected_ = (s = "connected"),
              !.closed_ = (@ \/ s \in {"closed", "failed"}),
              !.state = s]

PeerStateChange(id, s) ==
    /\ id \in DOMAIN peers /\ peers[id].state # s
    /\ peers' = [peers EXCEPT ![id] = OnStateChange(@, s)]
    /\ UNCHANGED <<pipeVars, next_ssrc_, reg_running_, cleanupPc, churned,
                   sigVars, auxVars>>

\* peer_connection.cpp:138-141: the transport opens the video track of a
\* connected peer
TrackOpen(id) ==
    /\ id \in DOMAIN peers /\ peers[id].connected_ /\ ~peers[id].track_open
    /\ peers' = [peers EXCEPT ![id].track_open = TRUE,
                              ![id].needs_keyframe_ = TRUE]
    /\ UNCHANGED <<pipeVars, next_ssrc_, reg_running_, cleanupPc, churned,
                   sigVars, auxVars>>

\* a reaper that takes every session that is not connected
IsNotConnected(p) == ~p.connected_
\* peer_connection.cpp:201-203  is_closed(), the test of webrtc_server.cpp:140
IsClosed(p) == p.closed_

\* webrtc_server.cpp:136-152  cleanup_loop: running_ is true at line 136, one
\* pass under peers_mutex_, then the sleep slices
ReaperSweep ==
    /\ cleanupPc = "loop" /\ reg_running_
    /\ LockFree(peers_mutex_)
    /\ peers' = [i \in {j \in DOMAIN peers : ~IsClosed(peers[j])} |-> peers[i]]
    /\ UNCHANGED <<pipeVars, next_ssrc_, reg_running_, cleanupPc, churned,
                   sigVars, auxVars>>

\* webrtc_server.cpp:136 and 150: the reaper finds running_ false at its next
\* check (before a pass or between two 100 ms slices) and returns
ReaperExit ==
    /\ cleanupPc = "loop" /\ ~reg_running_
    /\ cleanupPc' = "done"
    /\ UNCHANGED <<pipeVars, peers, next_ssrc_, reg_running_, churned, sigVars, auxVars>>

(***************************************************************************)
(* Specification of admission and signaling                                *)
(***************************************************************************)
InitSig == Init /\ mode = "reencode_sw" /\ reconnect_max_attempts = 0

\* clients connect, are admitted or refused, leave, and peers fail and are
\* reaped; no client sends a frame
NextAdmit ==
    \/ AnyCaller(RegStart) \/ AnyCaller(SigStart) \/ ReaperSweep
    \/ \E c \in Clients :
         \/ Accept(c) \/ ClientClose(c)
         \/ OccCreate(c) \/ OccReject(c) \/ OccWelcome(c) \/ OccStartOffer(c)
         \/ OcdErase(c) \/ OcdRemove(c)
    \/ \E id \in {FreshId(c) : c \in Clients} :
         \/ DeliverOffer(id)
         \/ PeerStateChange(id, "failed")

SpecAdmit == InitSig /\ [][NextAdmit]_vars

\* one client connects and sends frames of every kind
NextMsg ==
    \/ AnyCaller(RegStart) \/ AnyCaller(SigStart)
    \/ \E c \in {"A"} :
         \/ Accept(c) \/ ClientClose(c)
         \/ OccCreate(c) \/ OccReject(c) \/ OccWelcome(c) \/ OccStartOffer(c)
         \/ OcdErase(c) \/ OcdRemove(c)
         \/ \E kind \in MsgKinds : ClientMsg(c, kind)
    \/ \E id \in {FreshId(c) : c \in Clients} :
         \/ DeliverOffer(id)
         \/ \E s \in StateInputs : PeerStateChange(id, s)

SpecMsg == InitSig /\ [][NextMsg]_vars

\* one client connects and answers; its session is told that a keyframe
\* went out, its track opens, its connection comes up or fails
NextKey ==
    \/ AnyCaller(RegStart) \/ AnyCaller(SigStart)
    \/ \E c \in {"A"} :
         \/ Accept(c) \/ ClientClose(c)
         \/ OccCreate(c) \/ OccReject(c) \/ OccWelcome(c) \/ OccStartOffer(c)
         \/ OcdErase(c) \/ OcdRemove(c)
         \/ \E kind \in AnswerKinds : ClientMsg(c, kind)
    \/ \E id \in {FreshId("A")} :
         \/ KeyframeSent(id) \/ TrackOpen(id)
         \/ \E s \in StateInputs : PeerStateChange(id, s)

SpecKey == InitSig /\ [][NextKey]_vars

\* the source has faulted and the supervisor has not come back to Playing
SourceLost == faults > 0 /\ SupState \in {"Faulted", "Backoff", "Building"}

\* create_peer for a client that arrives while the source is away
LateCreate(c) == SourceLost /\ OccCreate(c)

\* the source faults and is rebuilt while a client connects; the client is
\* admitted only between a fault and the next Playing
NextLate ==
    \/ AnyCaller(RegStart) \/ AnyCaller(SigStart) \/ AnyCaller(Start)
    \/ SupEntry \/ SupLoop \/ SupBuildOk \/ SupBuildFail
    \/ SupSetPlayingOk \/ SupSetPlayingFail \/ SupFailUnref \/ SupFailClear
    \/ SupStoreRunning \/ SupPollCheck \/ SupPop
    \/ SupTdBus \/ SupTdStats \/ SupTdState \/ SupTdUnref \/ SupTdClear
    \/ SupTdCheck \/ SupRcEntry \/ SupRcCount \/ SupRcSleep
    \/ OnNewSample
    \/ \E c \in {"A"} :
         \/ Accept(c)
         \/ LateCreate(c)
         \/ OccReject(c) \/ OccWelcome(c) \/ OccStartOffer(c)
    \/ \E id \in {FreshId("A")} :
         \/ TrackOpen(id)
         \/ \E s \in StateInputs : PeerStateChange(id, s)

SpecLate == InitSig /\ [][NextLate]_vars

\* clients connect and stay; their sessions connect and fail, and the reaper
\* is the only one to remove them
NextReap ==
    \/ AnyCaller(RegStart) \/ AnyCaller(SigStart) \/ ReaperSweep
    \/ \E c \in Clients :
         \/ Accept(c)
         \/ OccCreate(c) \/ OccReject(c) \/ OccWelcome(c) \/ OccStartOffer(c)
    \/ \E id \in {FreshId(c) : c \in Clients} :
         \E s \in StateInputs : PeerStateChange(id, s)

\* cleanup_loop runs on its own thread and makes a pass every two seconds
\* while running_ is true (webrtc_server.cpp:136-153)
FairReap == WF_vars(ReaperSweep)

SpecReap == InitSig /\ [][NextReap]_vars /\ FairReap

\* one client connects and leaves; its session is reported in every state,
\* in any order, and the reaper runs
NextState ==
    \/ AnyCaller(RegStart) \/ AnyCaller(SigStart) \/ ReaperSweep
    \/ \E c \in {"A"} :
         \/ Accept(c) \/ ClientClose(c)
         \/ OccCreate(c) \/ OccReject(c) \/ OccWelcome(c) \/ OccStartOffer(c)
         \/ OcdErase(c) \/ OcdRemove(c)
    \/ \E id \in {FreshId("A")} :
         \/ TrackOpen(id)
         \/ \E s \in PeerStates : PeerStateChange(id, s)

SpecState == InitSig /\ [][NextState]_vars

\* the socket of a client closes at some point after create_peer admitted it
CloseAfterAdmission(c) == occPeer[c] \in DOMAIN peers /\ ClientClose(c)

\* two clients connect and close their sockets at any moment after their
\* admission; the server's
\* own threads (the accept callback, the socket callbacks, the transport's
\* offer callback and the reaper) always get to run
NextClose ==
    \/ AnyCaller(RegStart) \/ AnyCaller(SigStart) \/ ReaperSweep
    \/ \E c \in {"A", "B"} :
         \/ Accept(c) \/ CloseAfterAdmission(c)
         \/ OccCreate(c) \/ OccReject(c) \/ OccWelcome(c) \/ OccStartOffer(c)
         \/ OcdErase(c) \/ OcdRemove(c)
    \/ \E id \in {FreshId("A"), FreshId("B")} :
         \/ DeliverOffer(id)
         \/ \E s \in StateInputs : PeerStateChange(id, s)

\* on_client_connected and on_client_disconnected run to their end once
\* entered (signaling_server.cpp:62-157, 195-203), the reaper makes its
\* passes (webrtc_server.cpp:136-153); what clients and the network do is
\* not constrained
FairClose ==
    /\ WF_vars(ReaperSweep)
    /\ \A c \in {"A", "B"} :
          /\ WF_vars(OccCreate(c) \/ OccReject(c) \/ OccWelcome(c)
                       \/ OccStartOffer(c))
          /\ WF_vars(OcdErase(c) \/ OcdRemove(c))
    /\ \A id \in {FreshId("A"), FreshId("B")} : WF_vars(DeliverOffer(id))

SpecClose == InitSig /\ [][NextClose]_vars /\ FairClose

\* generate_peer_id (webrtc_server.cpp:9-17) draws 32 bits from a
\* std::mt19937: any value of its range may come out, one already in use
\* included. The range is scaled down to two values.
PeerIdSpace == {"peer-a", "peer-b"}

\* create_peer with whatever id the generator yields
OccCreateAny(c) ==
    \E id \in PeerIdSpace, ctor_ok \in BOOLEAN : CreatePeer(c, id, ctor_ok)

\* two clients connect, are admitted under a generated id, and leave; sessions
\* fail and are reaped
NextIds ==
    \/ AnyCaller(RegStart) \/ AnyCaller(SigStart) \/ ReaperSweep
    \/ \E c \in {"A", "B"} :
         \/ Accept(c) \/ ClientClose(c)
         \/ OccCreateAny(c) \/ OccReject(c) \/ OccWelcome(c)
         \/ OccStartOffer(c)
         \/ OcdErase(c) \/ OcdRemove(c)
    \/ \E id \in PeerIdSpace : PeerStateChange(id, "failed")

SpecIds == InitSig /\ [][NextIds]_vars

\* one client connects and sends answers and candidates while its session
\* fails and is reaped, or is removed after its socket closed
NextGone ==
    \/ AnyCaller(RegStart) \/ AnyCaller(SigStart) \/ ReaperSweep
    \/ \E c \in {"A"} :
         \/ Accept(c) \/ ClientClose(c)
         \/ OccCreate(c) \/ OccReject(c) \/ OccWelcome(c) \/ OccStartOffer(c)
         \/ OcdErase(c) \/ OcdRemove(c)
         \/ \E kind \in AnswerKinds \cup {"candidate", "candidate_bad"} :
              ClientMsg(c, kind)
    \/ \E id \in {FreshId("A")} :
         \/ DeliverOffer(id)
         \/ \E s \in StateInputs : PeerStateChange(id, s)

SpecGone == InitSig /\ [][NextGone]_vars

\* one client connects and sends frames on which something fails, and
\* frames on which nothing does
NextFail ==
    \/ AnyCaller(RegStart) \/ AnyCaller(SigStart)
    \/ \E c \in {"A"} :
         \/ Accept(c) \/ ClientClose(c)
         \/ OccCreate(c) \/ OccReject(c) \/ OccWelcome(c) \/ OccStartOffer(c)
         \/ OcdErase(c) \/ OcdRemove(c)
         \/ \E kind \in FailingKinds \cup {"answer", "candidate", "ping"} :
              ClientMsg(c, kind)
    \/ \E id \in {FreshId("A")} :
         \/ DeliverOffer(id)
         \/ \E s \in StateInputs : PeerStateChange(id, s)

SpecFail == InitSig /\ [][NextFail]_vars

\* samples are broadcast step by step while clients connect and leave,
\* sessions connect and fail, and the reaper runs
NextCast ==
    \/ AnyCaller(RegStart) \/ AnyCaller(SigStart) \/ AnyCaller(Start)
    \/ SupEntry \/ SupBuildOk \/ SupSetPlayingOk \/ SupStoreRunning
    \/ ReaperSweep
    \/ \E c \in {"A", "B"} :
         \/ Accept(c) \/ ClientClose(c)
         \/ OccCreate(c) \/ OccReject(c) \/ OccWelcome(c) \/ OccStartOffer(c)
         \/ OcdErase(c) \/ OcdRemove(c)
    \/ \E id \in {FreshId("A"), FreshId("B")} :
         \/ TrackOpen(id)
         \/ \E st \in StateInputs : PeerStateChange(id, st)
         \/ BcVisit(id, TRUE)
    \/ BcLock(U64(11), 1, MaxFrames)
    \/ BcUnlock

SpecCast == InitSig /\ [][NextCast]_vars

\* samples are broadcast to two sessions while the track of either may
\* refuse a send; the reaper runs
NextDrop ==
    \/ AnyCaller(RegStart) \/ AnyCaller(SigStart) \/ AnyCaller(Start)
    \/ SupEntry \/ SupBuildOk \/ SupSetPlayingOk \/ SupStoreRunning
    \/ ReaperSweep
    \/ \E c \in {"A", "B"} :
         \/ Accept(c)
         \/ OccCreate(c) \/ OccReject(c) \/ OccWelcome(c) \/ OccStartOffer(c)
    \/ \E id \in {FreshId("A"), FreshId("B")} :
         \/ TrackOpen(id)
         \/ \E st \in StateInputs : PeerStateChange(id, st)
         \/ \E ok \in BOOLEAN : BcVisit(id, ok)
    \/ \E size \in NalSizes : BcLock(U64(11), size, MaxNals)
    \/ BcUnlock

SpecDrop == InitSig /\ [][NextDrop]_vars

(***************************************************************************)
(* Specification of set_bitrate over the configurable range                *)
(***************************************************************************)
\* the largest value of int (rtsp_pipeline.cpp:55, `int clamped`)
IntMax == 2147483647
\* the bitrate hints of a caller and the configured values of
\* webrtc.video.max_bitrate_kbps: inside the default range, at the largest
\* value whose thousandfold is an int (2147483), one above it, and beyond
\* the largest whose thousandfold is a guint (4294967)
RateInputs == {100, 2000, 12000, 2147483, 2147484, 4294967, 5000000}
MaxConfigs == {max_bitrate_kbps, 2147483, 2147484, 5000000}

\* rtsp_pipeline.cpp:55-56 with max_bitrate_kbps = hi
ClampedTo(k, hi) == Max(min_bitrate_kbps, Min(k, hi))

\* c * 1000 as a number, in eight bytes
Thousandfold(c) == MulWrap(Widen(ToBytes(c, 4), 8), 1000)

\* rtsp_pipeline.cpp:58-64: what g_object_set is given. `clamped * 1000` is
\* an int product: beyond IntMax it is undefined, and the build either
\* wraps it (the cast to guint then keeps the low 32 bits) or traps.
Written(k, hi, hw) ==
    LET c == ClampedTo(k, hi)
    IN  IF ~hw
          THEN {[done |-> TRUE, trapped |-> FALSE, written |-> ToBytes(c, 4)]}
          ELSE IF c <= IntMax \div 1000
                 THEN {[done |-> TRUE, trapped |-> FALSE,
                        written |-> Low32(Thousandfold(c))]}
                 ELSE {[done |-> TRUE, trapped |-> FALSE,
                        written |-> Low32(Thousandfold(c))],
                       [done |-> TRUE, trapped |-> TRUE, written |-> << >>]}

\* rtsp_pipeline.cpp:51-67 past the guard of line 52
SetBitrateWrite ==
    /\ ~rate_out.done
    /\ rate_out' \in Written(rate_in.k, rate_in.max, rate_in.hw)
    /\ UNCHANGED <<pipeVars, regVars, sigVars, peers_mutex_, bc, rate_in,
                   http_uri, http_resp, noteVars>>

InitRate ==
    /\ PipeInit /\ mode = "reencode_sw" /\ reconnect_max_attempts = 0
    /\ RegInit /\ SigInit /\ LockInit /\ HttpIdle /\ NoteInit
    /\ rate_in \in [k : RateInputs, max : MaxConfigs, hw : BOOLEAN]
    /\ rate_out = [done |-> FALSE, trapped |-> FALSE, written |-> << >>]

NextRate == SetBitrateWrite

SpecRate == InitRate /\ [][NextRate]_vars

(***************************************************************************)
(* HttpServer::resolve_path over a small file system                       *)
(***************************************************************************)
\* A path is the sequence of its segments; a string is the sequence of its
\* characters. The file system: the web root /s/w with the file i
\* (index.html), the directory d and the file d/f; next to the root the
\* directory /s/wx, whose name begins with the root's, with the file f, and
\* the directory /s/o with the file f.
web_root_ == <<"s", "w">>
Dirs == {<< >>, <<"s">>, <<"s", "w">>, <<"s", "w", "d">>, <<"s", "wx">>,
         <<"s", "o">>}
Files == {<<"s", "w", "i">>, <<"s", "w", "d", "f">>, <<"s", "wx", "f">>,
          <<"s", "o", "f">>}
\* the segments a request URI is made of
UriSegments == {"..", "d", "f", "i", "wx", "o", "w"}
\* segments in a request URI
MaxUriLen == 3

\* the characters of a segment
Spell(seg) == IF seg = "wx" THEN <<"w", "x">> ELSE <<seg>>

\* path::string()
RECURSIVE PathString(_)
PathString(path) ==
    IF path = << >> THEN << >>
    ELSE <<"/">> \o Spell(Head(path)) \o PathString(Tail(path))

\* the path that does not exist
NoPath == <<"?">>

\* fs::canonical (http_server.cpp:161): the segments are followed from the
\* directory cur, ".." goes to the parent, every other segment must name an
\* entry that exists (a file only as the last one); otherwise it throws
RECURSIVE Canonical(_, _)
Canonical(cur, rest) ==
    IF rest = << >> THEN cur
    ELSE IF Head(rest) = ".."
      THEN Canonical(IF cur = << >> THEN cur ELSE SubSeq(cur, 1, Len(cur) - 1),
                     Tail(rest))
      ELSE LET nxt == Append(cur, Head(rest))
           IN  IF nxt \in Dirs \/ (nxt \in Files /\ Tail(rest) = << >>)
                 THEN Canonical(nxt, Tail(rest))
                 ELSE NoPath

\* a check that compares whole segments
InsideBySegments(canon, root) ==
    Len(canon) >= Len(root) /\ SubSeq(canon, 1, Len(root)) = root

\* http_server.cpp:163-165: canonical.string().substr(0, root_str.size())
\* == root_str
InsideByString(canon, root) ==
    LET c == PathString(canon)
        r == PathString(root)
    IN  SubSeq(c, 1, Min(Len(c), Len(r))) = r

\* http_server.cpp:148-178  resolve_path: the canonical path of the file to
\* send, or NoPath for the empty string ("/" stands for /index.html)
ResolvePath(uri) ==
    LET canon == Canonical(web_root_, IF uri = << >> THEN <<"i">> ELSE uri)
    IN  IF canon = NoPath THEN NoPath
        ELSE IF ~InsideByString(canon, web_root_) THEN NoPath
        ELSE IF canon \in Files THEN canon
        ELSE NoPath

\* http_server.cpp:137-145  handle_client from resolve_path on: 404 for the
\* empty string, the file otherwise
HandleGet ==
    /\ ~http_resp.done
    /\ http_resp' = IF ResolvePath(http_uri) = NoPath
                      THEN [done |-> TRUE, status |-> 404, file |-> << >>]
                      ELSE [done |-> TRUE, status |-> 200,
                            file |-> ResolvePath(http_uri)]
    /\ UNCHANGED <<pipeVars, regVars, sigVars, peers_mutex_, bc, rate_in,
                   rate_out, http_uri, noteVars>>

RECURSIVE UrisUpTo(_)
UrisUpTo(n) ==
    IF n = 0 THEN {<< >>}
    ELSE UrisUpTo(n - 1) \cup [1..n -> UriSegments]

InitHttp ==
    /\ PipeInit /\ mode = "reencode_sw" /\ reconnect_max_attempts = 0
    /\ RegInit /\ SigInit /\ LockInit /\ RateIdle /\ NoteInit
    /\ http_uri \in UrisUpTo(MaxUriLen)
    /\ http_resp = [done |-> FALSE, status |-> 0, file |-> << >>]

NextHttp == HandleGet

SpecHttp == InitHttp /\ [][NextHttp]_vars

(***************************************************************************)
(* Specification of SSRC assignment over a long run                        *)
(***************************************************************************)
\* bulk batches in one run
MaxChurn == 2
\* 2^31 and 2^31 - 1 sessions
ChurnSizes == {U32(32768, 0), U32(32767, 65535)}

\* n further clients connect and disconnect one after the other, each
\* admitted by create_peer (webrtc_server.cpp:25-46, peer_connection.cpp:15)
\* and removed again by remove_peer (webrtc_server.cpp:80-87) before the
\* next one connects: the map is as before and the counter is n further
Churn(n) ==
    /\ ~AtCap(Cardinality(DOMAIN peers))
    /\ LockFree(peers_mutex_)
    /\ churned < MaxChurn
    /\ next_ssrc_' = Add32(next_ssrc_, n)
    /\ churned' = churned + 1
    /\ UNCHANGED <<pipeVars, peers, reg_running_, cleanupPc, sigVars, auxVars>>

NextSsrc ==
    \/ AnyCaller(RegStart) \/ AnyCaller(SigStart)
    \/ \E c \in Clients :
         \/ Accept(c) \/ ClientClose(c)
         \/ OccCreate(c) \/ OccReject(c) \/ OccWelcome(c)
         \/ OccStartOffer(c)
         \/ OcdErase(c) \/ OcdRemove(c)
    \/ \E n \in ChurnSizes : Churn(n)

SpecSsrc == InitSig /\ [][NextSsrc]_vars

(***************************************************************************)
(* SignalingServer::stop, WebRtcServer::stop and the sequence of main()    *)
(***************************************************************************)
\* the RtspPipeline variables a call into another component leaves alone
calleeFrame == <<mode, reconnect_max_attempts, pc, thread_joinable, running_,
                 stop_requested_, pipeline_, graph, encoder_, enc_prop,
                 is_hw_encode_, pipeline_ok, msg, elapsed, stats_connected,
                 reconnect_count, frames_received, sbPc, sb_k, crashed, faults,
                 run_faults>>

\* signaling_server.cpp:42
SigStopFlag ==
    /\ ~crashed /\ mainPc = "idle"
    /\ sig_running_' = FALSE
    /\ mainPc' = "ss_close"
    /\ UNCHANGED <<calleeFrame, regVars, ws_server_, clients_, wsState, occPc,
                   occPeer, wsHandlers, cbPending, sendCalls, msgCount,
                   bitrate_cb_calls, msgLog, bitrate_msgs, auxVars>>

\* session.ws->close() on socket c: an open socket closes and its onClosed
\* handler, if registered, is raised later on a transport thread
CloseSocket(st, c) == IF st[c] = "open" THEN [st EXCEPT ![c] = "closed"] ELSE st
RaiseClosed(cb, c) ==
    IF wsState[c] = "open" /\ wsHandlers[c] /\ cb[c] = "none"
      THEN [cb EXCEPT ![c] = "erase"] ELSE cb

\* signaling_server.cpp:44-52, under clients_mutex_: close the socket of every
\* session in the map, then clear the map
SigStopClose ==
    /\ ~crashed /\ mainPc = "ss_close"
    /\ wsState' = [c \in Clients |->
                     IF \E id \in DOMAIN clients_ : clients_[id] = c
                       THEN CloseSocket(wsState, c)[c] ELSE wsState[c]]
    /\ cbPending' = [c \in Clients |->
                       IF \E id \in DOMAIN clients_ : clients_[id] = c
                         THEN RaiseClosed(cbPending, c)[c] ELSE cbPending[c]]
    /\ clients_' = EmptyMap
    /\ mainPc' = "ss_server"
    /\ UNCHANGED <<calleeFrame, sdPc, regVars, sig_running_, ws_server_, occPc,
                   occPeer, wsHandlers, sendCalls, msgCount, bitrate_cb_calls, msgLog,
                   bitrate_msgs, auxVars>>

\* signaling_server.cpp:54-57: ws_server_->stop() ends the accept thread, so
\* it returns once no on_client_connected call is in progress on it; the
\* sockets already handed over are not touched
SigStopServer ==
    /\ ~crashed /\ mainPc = "ss_server"
    /\ IF ws_server_ = "ptr"
         THEN /\ \A c \in Clients : occPc[c] \in {"idle", "done"}
              /\ ws_server_' = "nullptr"
         ELSE UNCHANGED ws_server_
    /\ mainPc' = "idle"
    /\ UNCHANGED <<calleeFrame, sdPc, regVars, sig_running_, clients_, wsState,
                   occPc, occPeer, wsHandlers, cbPending, sendCalls, msgCount,
                   bitrate_cb_calls, msgLog, bitrate_msgs, auxVars>>

\* webrtc_server.cpp:105
RegStopFlag ==
    /\ ~crashed /\ mainPc = "idle"
    /\ reg_running_' = FALSE
    /\ mainPc' = "rs_join"
    /\ UNCHANGED <<calleeFrame, peers, next_ssrc_, cleanupPc, churned, sigVars, auxVars>>

\* a stop() that never joins
NeverJoinable(t) == FALSE

\* webrtc_server.cpp:106  cleanup_thread_.joinable()
Joinable(t) == t # "none"

\* webrtc_server.cpp:106-108: join() returns once the reaper has left
\* cleanup_loop
RegStopJoin ==
    /\ ~crashed /\ mainPc = "rs_join"
    /\ IF Joinable(cleanupPc)
         THEN cleanupPc = "done" /\ cleanupPc' = "none"
         ELSE UNCHANGED cleanupPc
    /\ mainPc' = "rs_clear"
    /\ UNCHANGED <<calleeFrame, sdPc, peers, next_ssrc_, reg_running_, churned,
                   sigVars, auxVars>>

\* webrtc_server.cpp:111-113, under peers_mutex_
RegStopClear ==
    /\ ~crashed /\ mainPc = "rs_clear"
    /\ LockFree(peers_mutex_)
    /\ peers' = EmptyMap
    /\ mainPc' = "idle"
    /\ UNCHANGED <<calleeFrame, sdPc, next_ssrc_, reg_running_, cleanupPc,
                   churned, sigVars, auxVars>>

\* main() makes the call A when it stands at `from`, and stands at `to`
\* while the call runs and after it has returned
MainCalls(from, A, to) == sdPc = from /\ mainPc = "idle" /\ A /\ sdPc' = to

\* main.cpp:112-119: the three start() calls
MainStarts ==
    \/ MainCalls("init", RegStart, "sig_start")
    \/ MainCalls("sig_start", SigStart, "rtsp_start")
    \/ MainCalls("rtsp_start", Start, "loop")

\* main.cpp:162-166: the watchdog finds is_running() false and restarts the
\* pipeline with stop() followed by start()
MainWatchdog ==
    \/ MainCalls("loop", ~running_ /\ StopRequest, "wd_start")
    \/ MainCalls("wd_start", Start, "loop")

\* main.cpp:138 and 172-175: g_shutdown ends the loop; rtsp_pipeline.stop(),
\* then (after http_server.stop()) signaling_server.stop(), then
\* webrtc_server.stop()
MainShutdown ==
    \/ MainCalls("loop", StopRequest, "sig_stop")
    \/ MainCalls("sig_stop", SigStopFlag, "reg_stop")
    \/ MainCalls("reg_stop", RegStopFlag, "dtor_rtsp")

\* main.cpp:178-179: return destroys the components in the reverse order of
\* lines 92-95, and each destructor calls stop() once more
\* (rtsp_pipeline.cpp:12-14, signaling_server.cpp:15-17, webrtc_server.cpp:21-23)
MainDestructors ==
    \/ MainCalls("dtor_rtsp", StopRequest, "dtor_sig")
    \/ MainCalls("dtor_sig", SigStopFlag, "dtor_reg")
    \/ MainCalls("dtor_reg", RegStopFlag, "exit")

(***************************************************************************)
(* Specification of a whole run of main(): start, serve one client, shut   *)
(* down, destroy                                                           *)
(***************************************************************************)
NextMain ==
    \/ MainStarts \/ MainWatchdog \/ MainShutdown \/ MainDestructors
    \/ StopRunning \/ StopSetNull \/ StopJoin \/ StopFinal
    \/ SigStopClose \/ SigStopServer
    \/ RegStopJoin \/ RegStopClear
    \/ SupEntry \/ SupLoop \/ SupBuildOk \/ SupBuildFail
    \/ SupSetPlayingOk \/ SupSetPlayingFail \/ SupFailUnref \/ SupFailClear
    \/ SupStoreRunning \/ SupPollCheck \/ SupPop
    \/ SupTdBus \/ SupTdStats \/ SupTdState \/ SupTdUnref \/ SupTdClear
    \/ SupTdCheck \/ SupRcEntry \/ SupRcCount \/ SupRcSleep
    \/ OnNewSample
    \/ ReaperSweep \/ ReaperExit
    \/ \E c \in {"A"} :
         \/ Accept(c)
         \/ OccCreate(c) \/ OccReject(c) \/ OccWelcome(c) \/ OccStartOffer(c)
         \/ OcdErase(c) \/ OcdRemove(c)
    \/ \E id \in {FreshId("A")} :
         \/ TrackOpen(id)
         \/ \E s \in StateInputs : PeerStateChange(id, s)

SpecMain == InitSig /\ [][NextMain]_vars

(***************************************************************************)
(* Specification of stopping: the worker and the reaper under a fair       *)
(* scheduler                                                               *)
(***************************************************************************)
\* the pipeline and the registry are started and stopped, in any order and
\* any number of times, by one thread; no client connects
NextStop ==
    \/ Worker
    \/ AnyCaller(Start) \/ AnyCaller(StopRequest)
    \/ StopRunning \/ StopSetNull \/ StopJoin \/ StopFinal
    \/ AnyCaller(RegStart) \/ AnyCaller(RegStopFlag)
    \/ RegStopJoin \/ RegStopClear
    \/ ReaperSweep \/ ReaperExit

\* a thread that can take a step takes one: the worker (its bus poll times
\* out after 500 ms and a sleep slice lasts 100 ms), the reaper, and the
\* caller once it is inside stop()
FairStop ==
    /\ WF_vars(Worker)
    /\ WF_vars(ReaperSweep \/ ReaperExit)
    /\ WF_vars(StopRunning \/ StopSetNull \/ StopJoin \/ StopFinal
                \/ RegStopJoin \/ RegStopClear)

SpecStop == InitSig /\ [][NextStop]_vars /\ FairStop

(***************************************************************************)
(* Specification of NAL delivery: the pipeline plays, two clients connect, *)
(* their peers change state, samples arrive                                *)
(***************************************************************************)
NextNal ==
    \/ AnyCaller(RegStart) \/ AnyCaller(SigStart) \/ AnyCaller(Start)
    \/ SupEntry \/ SupBuildOk \/ SupSetPlayingOk \/ SupStoreRunning
    \/ \E c \in {"A", "B"} :
         \/ Accept(c)
         \/ OccCreate(c) \/ OccReject(c) \/ OccWelcome(c) \/ OccStartOffer(c)
    \/ \E id \in {FreshId("A"), FreshId("B")} :
         \/ TrackOpen(id)
         \/ \E st \in StateInputs : PeerStateChange(id, st)
    \/ \E ts \in PtsInputs, size \in NalSizes : NewSample(ts, size, MaxNals)

SpecNal == InitSig /\ [][NextNal]_vars

(***************************************************************************)
(* The three mutexes, one lock and unlock at a time                        *)
(***************************************************************************)
\* Each thread is followed from one lock statement to the next: a thread
\* standing at a lock statement waits until the mutex is free. main.cpp's
\* thread calls get_stats (main.cpp:147) and the two stop() functions
\* (174-175); the streaming thread runs broadcast_nal; the reaper runs
\* cleanup_loop; a transport thread runs onStateChange; the thread named after
\* a socket runs that socket's onClosed handler.
LkThreads == {"main", "media", "reaper", "state"} \cup Clients

PeersLock == [kind |-> "peers", of |-> ""]
ClientsLock == [kind |-> "clients", of |-> ""]
StatsLock(id) == [kind |-> "stats", of |-> id]
NoLock == [kind |-> "none", of |-> ""]

NoArg == [id |-> "", st |-> ""]

\* the aux variables no step of the lock model writes
lkQuiet == <<bc, rate_in, rate_out, http_uri, http_resp, sb_hinted>>
\* the signaling variables no step of the lock model writes
sigQuiet == <<occPc, occPeer, wsHandlers, sendCalls, msgCount,
              bitrate_cb_calls, msgLog, bitrate_msgs>>

Goto(t, p) == [lkPc EXCEPT ![t] = p]
TakeStats(t, id) == [stats_mutex_ EXCEPT ![id] = t]
FreeStats(id) == [stats_mutex_ EXCEPT ![id] = "free"]

\* the socket whose session has the id
SockOf(id) == CHOOSE c \in Clients : occPeer[c] = id

\* ---- streaming thread: broadcast_nal and send_h264_nal -------------------
\* rtsp_pipeline.cpp:246-248: on_new_sample calls the NAL callback
BnCall ==
    /\ ~crashed /\ Streams(graph) /\ frames_received < MaxFrames
    /\ lkPc["media"] = "idle"
    /\ lkPc' = Goto("media", "bn_lock")
    /\ UNCHANGED <<pipeVars, regVars, sigVars, peers_mutex_, clients_mutex_,
                   stats_mutex_, lkArg, lkTodo, lkQuiet>>

\* webrtc_server.cpp:90
BnLock ==
    /\ lkPc["media"] = "bn_lock" /\ peers_mutex_ = "free"
    /\ peers_mutex_' = "media"
    /\ lkTodo' = [lkTodo EXCEPT !["media"] = DOMAIN peers]
    /\ lkPc' = Goto("media", "bn_loop")
    /\ UNCHANGED <<pipeVars, regVars, sigVars, clients_mutex_, stats_mutex_,
                   lkArg, lkQuiet>>

\* webrtc_server.cpp:91-92: the next entry of the map and its is_connected()
BnNext(id) ==
    /\ lkPc["media"] = "bn_loop" /\ id \in lkTodo["media"]
    /\ lkTodo' = [lkTodo EXCEPT !["media"] = @ \ {id}]
    /\ IF peers[id].connected_
         THEN /\ lkPc' = Goto("media", "sn_send")
              /\ lkArg' = [lkArg EXCEPT !["media"] = [id |-> id, st |-> ""]]
         ELSE UNCHANGED <<lkPc, lkArg>>
    /\ UNCHANGED <<pipeVars, regVars, sigVars, peers_mutex_, clients_mutex_,
                   stats_mutex_, lkQuiet>>

\* peer_connection.cpp:173-184: the early return, or the timestamp and the
\* track send
SnSend ==
    /\ lkPc["media"] = "sn_send"
    /\ LET id == lkArg["media"].id
       IN IF ~peers[id].connected_ \/ ~peers[id].track_open
            THEN /\ lkPc' = Goto("media", "bn_loop")
                 /\ UNCHANGED peers
            ELSE /\ lkPc' = Goto("media", "sn_lock")
                 /\ peers' = [peers EXCEPT
                                ![id].rtp_timestamp = RtpTimestamp(U64(11)),
                                ![id].pts_sent = U64(11),
                                ![id].track_sent = Append(@, frames_received + 1)]
    /\ UNCHANGED <<pipeVars, next_ssrc_, reg_running_, cleanupPc, churned,
                   sigVars, peers_mutex_, clients_mutex_, stats_mutex_, lkArg,
                   lkTodo, lkQuiet>>

\* peer_connection.cpp:188
SnLock ==
    /\ lkPc["media"] = "sn_lock"
    /\ stats_mutex_[lkArg["media"].id] = "free"
    /\ stats_mutex_' = TakeStats("media", lkArg["media"].id)
    /\ lkPc' = Goto("media", "sn_stats")
    /\ UNCHANGED <<pipeVars, regVars, sigVars, peers_mutex_, clients_mutex_,
                   lkArg, lkTodo, lkQuiet>>

\* peer_connection.cpp:189-191
SnStats ==
    /\ lkPc["media"] = "sn_stats"
    /\ LET id == lkArg["media"].id
       IN /\ peers' = [peers EXCEPT ![id].rtp_packets_sent = @ + 1,
                                    ![id].bytes_sent = @ + 1]
          /\ stats_mutex_' = FreeStats(id)
    /\ lkPc' = Goto("media", "bn_loop")
    /\ lkArg' = [lkArg EXCEPT !["media"] = NoArg]
    /\ UNCHANGED <<pipeVars, next_ssrc_, reg_running_, cleanupPc, churned,
                   sigVars, peers_mutex_, clients_mutex_, lkTodo, lkQuiet>>

\* webrtc_server.cpp:96 and rtsp_pipeline.cpp:250-256
BnUnlock ==
    /\ lkPc["media"] = "bn_loop" /\ lkTodo["media"] = {}
    /\ peers_mutex_' = "free"
    /\ frames_received' = frames_received + 1
    /\ stats_connected' = TRUE
    /\ lkPc' = Goto("media", "idle")
    /\ UNCHANGED <<mode, reconnect_max_attempts, pc, thread_joinable, running_,
                   stop_requested_, pipeline_, graph, encoder_, enc_prop,
                   is_hw_encode_, pipeline_ok, msg, elapsed, reconnect_count,
                   mainPc, sbPc, sb_k, crashed, sdPc, faults, run_faults,
                   regVars, sigVars, clients_mutex_, stats_mutex_, lkArg,
                   lkTodo, lkQuiet>>

\* ---- main's thread: WebRtcServer::get_stats ------------------------------
\* main.cpp:147
GsCall ==
    /\ lkPc["main"] = "idle"
    /\ lkPc' = Goto("main", "gs_lock")
    /\ UNCHANGED <<pipeVars, regVars, sigVars, peers_mutex_, clients_mutex_,
                   stats_mutex_, lkArg, lkTodo, lkQuiet>>

\* webrtc_server.cpp:122
GsLock ==
    /\ lkPc["main"] = "gs_lock" /\ peers_mutex_ = "free"
    /\ peers_mutex_' = "main"
    /\ lkTodo' = [lkTodo EXCEPT !["main"] = DOMAIN peers]
    /\ lkPc' = Goto("main", "gs_loop")
    /\ UNCHANGED <<pipeVars, regVars, sigVars, clients_mutex_, stats_mutex_,
                   lkArg, lkQuiet>>

\* webrtc_server.cpp:125-129: the next entry, up to its get_stats()
GsNext(id) ==
    /\ lkPc["main"] = "gs_loop" /\ id \in lkTodo["main"]
    /\ lkTodo' = [lkTodo EXCEPT !["main"] = @ \ {id}]
    /\ lkArg' = [lkArg EXCEPT !["main"] = [id |-> id, st |-> ""]]
    /\ lkPc' = Goto("main", "gp_lock")
    /\ UNCHANGED <<pipeVars, regVars, sigVars, peers_mutex_, clients_mutex_,
                   stats_mutex_, lkQuiet>>

\* peer_connection.cpp:206
GpLock ==
    /\ lkPc["main"] = "gp_lock"
    /\ stats_mutex_[lkArg["main"].id] = "free"
    /\ stats_mutex_' = TakeStats("main", lkArg["main"].id)
    /\ lkPc' = Goto("main", "gp_copy")
    /\ UNCHANGED <<pipeVars, regVars, sigVars, peers_mutex_, clients_mutex_,
                   lkArg, lkTodo, lkQuiet>>

\* peer_connection.cpp:207-208 and webrtc_server.cpp:130; the session whose
\* statistics were copied last stays in lkArg
GpUnlock ==
    /\ lkPc["main"] = "gp_copy"
    /\ stats_mutex_' = FreeStats(lkArg["main"].id)
    /\ lkPc' = Goto("main", "gs_loop")
    /\ UNCHANGED <<pipeVars, regVars, sigVars, peers_mutex_, clients_mutex_,
                   lkArg, lkTodo, lkQuiet>>

\* webrtc_server.cpp:132-133
GsUnlock ==
    /\ lkPc["main"] = "gs_loop" /\ lkTodo["main"] = {}
    /\ peers_mutex_' = "free"
    /\ lkPc' = Goto("main", "idle")
    /\ UNCHANGED <<pipeVars, regVars, sigVars, clients_mutex_, stats_mutex_,
                   lkArg, lkTodo, lkQuiet>>

\* ---- reaper: cleanup_loop ------------------------------------------------
\* webrtc_server.cpp:136-138
ClCall ==
    /\ cleanupPc = "loop" /\ reg_running_
    /\ lkPc["reaper"] = "idle"
    /\ lkPc' = Goto("reaper", "cl_lock")
    /\ UNCHANGED <<pipeVars, regVars, sigVars, peers_mutex_, clients_mutex_,
                   stats_mutex_, lkArg, lkTodo, lkQuiet>>

ClLock ==
    /\ lkPc["reaper"] = "cl_lock" /\ peers_mutex_ = "free"
    /\ peers_mutex_' = "reaper"
    /\ lkPc' = Goto("reaper", "cl_sweep")
    /\ UNCHANGED <<pipeVars, regVars, sigVars, clients_mutex_, stats_mutex_,
                   lkArg, lkTodo, lkQuiet>>

\* webrtc_server.cpp:139-147
ClSweep ==
    /\ lkPc["reaper"] = "cl_sweep"
    /\ peers' = [i \in {j \in DOMAIN peers : ~IsClosed(peers[j])} |-> peers[i]]
    /\ peers_mutex_' = "free"
    /\ lkPc' = Goto("reaper", "idle")
    /\ UNCHANGED <<pipeVars, next_ssrc_, reg_running_, cleanupPc, churned,
                   sigVars, clients_mutex_, stats_mutex_, lkArg, lkTodo, lkQuiet>>

\* webrtc_server.cpp:136 and 150, between two passes
ClExit == lkPc["reaper"] = "idle" /\ ReaperExit

\* ---- transport thread: onStateChange -------------------------------------
\* peer_connection.cpp:60-76: the two atomics
ScCall(id, s) ==
    /\ lkPc["state"] = "idle"
    /\ id \in DOMAIN peers /\ peers[id].state # s
    /\ peers' = [peers EXCEPT ![id].connected_ = (s = "connected"),
                              ![id].closed_ = (@ \/ s \in {"closed", "failed"})]
    /\ lkArg' = [lkArg EXCEPT !["state"] = [id |-> id, st |-> s]]
    /\ lkPc' = Goto("state", "sc_lock")
    /\ UNCHANGED <<pipeVars, next_ssrc_, reg_running_, cleanupPc, churned,
                   sigVars, peers_mutex_, clients_mutex_, stats_mutex_, lkTodo,
                   lkQuiet>>

\* peer_connection.cpp:79
ScLock ==
    /\ lkPc["state"] = "sc_lock"
    /\ stats_mutex_[lkArg["state"].id] = "free"
    /\ stats_mutex_' = TakeStats("state", lkArg["state"].id)
    /\ lkPc' = Goto("state", "sc_write")
    /\ UNCHANGED <<pipeVars, regVars, sigVars, peers_mutex_, clients_mutex_,
                   lkArg, lkTodo, lkQuiet>>

\* peer_connection.cpp:80-81; a session that left the map meanwhile has no
\* entry to show the state in
ScWrite ==
    /\ lkPc["state"] = "sc_write"
    /\ LET id == lkArg["state"].id
       IN /\ peers' = IF id \in DOMAIN peers
                        THEN [peers EXCEPT ![id].state = lkArg["state"].st]
                        ELSE peers
          /\ stats_mutex_' = FreeStats(id)
    /\ lkArg' = [lkArg EXCEPT !["state"] = NoArg]
    /\ lkPc' = Goto("state", "idle")
    /\ UNCHANGED <<pipeVars, next_ssrc_, reg_running_, cleanupPc, churned,
                   sigVars, peers_mutex_, clients_mutex_, lkTodo, lkQuiet>>

\* ---- on_client_disconnected, on the thread t that runs the handler --------
\* signaling_server.cpp:145-147: the transport thread of socket c runs the
\* onClosed handler that was raised
OcdCall(c) ==
    /\ cbPending[c] = "erase" /\ lkPc[c] = "idle"
    /\ \A t \in LkThreads : lkArg[t] # [id |-> occPeer[c], st |-> "closed"]
    /\ lkArg' = [lkArg EXCEPT ![c] = [id |-> occPeer[c], st |-> "closed"]]
    /\ lkPc' = Goto(c, "ocd_lock")
    /\ UNCHANGED <<pipeVars, regVars, sigVars, peers_mutex_, clients_mutex_,
                   stats_mutex_, lkTodo, lkQuiet>>

\* signaling_server.cpp:197
OcdLock(t) ==
    /\ lkPc[t] = "ocd_lock" /\ clients_mutex_ = "free"
    /\ clients_mutex_' = t
    /\ lkPc' = Goto(t, "ocd_erase")
    /\ UNCHANGED <<pipeVars, regVars, sigVars, peers_mutex_, stats_mutex_,
                   lkArg, lkTodo, lkQuiet>>

\* signaling_server.cpp:198-199
OcdUnlock(t) ==
    /\ lkPc[t] = "ocd_erase"
    /\ clients_' = MapErase(clients_, lkArg[t].id)
    /\ cbPending' = [cbPending EXCEPT ![SockOf(lkArg[t].id)] = "remove"]
    /\ clients_mutex_' = "free"
    /\ lkPc' = Goto(t, "rp_lock")
    /\ UNCHANGED <<pipeVars, regVars, sig_running_, ws_server_, wsState,
                   sigQuiet, peers_mutex_, stats_mutex_, lkArg, lkTodo, lkQuiet>>

\* signaling_server.cpp:201 and webrtc_server.cpp:81
RpLock(t) ==
    /\ lkPc[t] = "rp_lock" /\ peers_mutex_ = "free"
    /\ peers_mutex_' = t
    /\ lkPc' = Goto(t, "rp_erase")
    /\ UNCHANGED <<pipeVars, regVars, sigVars, clients_mutex_, stats_mutex_,
                   lkArg, lkTodo, lkQuiet>>

\* webrtc_server.cpp:82-87; the handler returns to the transport, or into
\* the close() call that ran it
RpUnlock(t) ==
    /\ lkPc[t] = "rp_erase"
    /\ peers' = RemovePeer(peers, lkArg[t].id)
    /\ cbPending' = [cbPending EXCEPT ![SockOf(lkArg[t].id)] = "done"]
    /\ peers_mutex_' = "free"
    /\ lkArg' = [lkArg EXCEPT ![t] = NoArg]
    /\ lkPc' = Goto(t, IF t = "main" THEN "ss_loop" ELSE "idle")
    /\ UNCHANGED <<pipeVars, next_ssrc_, reg_running_, cleanupPc, churned,
                   sig_running_, ws_server_, clients_, wsState, sigQuiet,
                   clients_mutex_, stats_mutex_, lkTodo, lkQuiet>>

\* ---- main's thread: SignalingServer::stop --------------------------------
\* signaling_server.cpp:42
SsCall ==
    /\ lkPc["main"] = "idle" /\ sig_running_
    /\ sig_running_' = FALSE
    /\ lkPc' = Goto("main", "ss_lock")
    /\ UNCHANGED <<pipeVars, regVars, ws_server_, clients_, wsState, cbPending,
                   sigQuiet, peers_mutex_, clients_mutex_, stats_mutex_, lkArg,
                   lkTodo, lkQuiet>>

\* signaling_server.cpp:45
SsLock ==
    /\ lkPc["main"] = "ss_lock" /\ clients_mutex_ = "free"
    /\ clients_mutex_' = "main"
    /\ lkTodo' = [lkTodo EXCEPT !["main"] = DOMAIN clients_]
    /\ lkPc' = Goto("main", "ss_loop")
    /\ UNCHANGED <<pipeVars, regVars, sigVars, peers_mutex_, stats_mutex_,
                   lkArg, lkQuiet>>

\* signaling_server.cpp:46-50: session.ws->close() on the next entry. The
\* socket's onClosed handler is raised by the library, which is not part of
\* this repository: on a transport thread later (inside = FALSE), or on the
\* closing thread before close() returns (inside = TRUE), as when the close
\* frame cannot be sent any more or the handshake has not finished.
SsClose(id, inside) ==
    /\ lkPc["main"] = "ss_loop" /\ id \in lkTodo["main"]
    /\ lkTodo' = [lkTodo EXCEPT !["main"] = @ \ {id}]
    /\ LET c == clients_[id]
       IN /\ wsState' = CloseSocket(wsState, c)
          /\ cbPending' = RaiseClosed(cbPending, c)
          /\ IF inside /\ RaiseClosed(cbPending, c) # cbPending
               THEN /\ lkArg' = [lkArg EXCEPT !["main"] = [id |-> id, st |-> "closed"]]
                    /\ lkPc' = Goto("main", "ocd_lock")
               ELSE UNCHANGED <<lkArg, lkPc>>
    /\ UNCHANGED <<pipeVars, regVars, sig_running_, ws_server_, clients_,
                   sigQuiet, peers_mutex_, clients_mutex_, stats_mutex_, lkQuiet>>

\* signaling_server.cpp:51-52
SsClear ==
    /\ lkPc["main"] = "ss_loop" /\ lkTodo["main"] = {}
    /\ clients_' = EmptyMap
    /\ clients_mutex_' = "free"
    /\ lkPc' = Goto("main", "ss_server")
    /\ UNCHANGED <<pipeVars, regVars, sig_running_, ws_server_, wsState,
                   cbPending, sigQuiet, peers_mutex_, stats_mutex_, lkArg,
                   lkTodo, lkQuiet>>

\* signaling_server.cpp:54-57
SsServer ==
    /\ lkPc["main"] = "ss_server"
    /\ \A c \in Clients : occPc[c] \in {"idle", "done"}
    /\ ws_server_' = "nullptr"
    /\ lkPc' = Goto("main", "idle")
    /\ UNCHANGED <<pipeVars, regVars, sig_running_, clients_, wsState, cbPending,
                   sigQuiet, peers_mutex_, clients_mutex_, stats_mutex_, lkArg,
                   lkTodo, lkQuiet>>

\* ---- main's thread: WebRtcServer::stop -----------------------------------
\* webrtc_server.cpp:105
RsCall ==
    /\ lkPc["main"] = "idle" /\ reg_running_
    /\ reg_running_' = FALSE
    /\ lkPc' = Goto("main", "rs_join")
    /\ UNCHANGED <<pipeVars, peers, next_ssrc_, cleanupPc, churned, sigVars,
                   peers_mutex_, clients_mutex_, stats_mutex_, lkArg, lkTodo,
                   lkQuiet>>

\* webrtc_server.cpp:106-108: join returns when the reaper has ended
RsJoin ==
    /\ lkPc["main"] = "rs_join" /\ cleanupPc = "done"
    /\ cleanupPc' = "none"
    /\ lkPc' = Goto("main", "rs_lock")
    /\ UNCHANGED <<pipeVars, peers, next_ssrc_, reg_running_, churned, sigVars,
                   peers_mutex_, clients_mutex_, stats_mutex_, lkArg, lkTodo,
                   lkQuiet>>

\* webrtc_server.cpp:111
RsLock ==
    /\ lkPc["main"] = "rs_lock" /\ peers_mutex_ = "free"
    /\ peers_mutex_' = "main"
    /\ lkPc' = Goto("main", "rs_clear")
    /\ UNCHANGED <<pipeVars, regVars, sigVars, clients_mutex_, stats_mutex_,
                   lkArg, lkTodo, lkQuiet>>

\* webrtc_server.cpp:112-114
RsClear ==
    /\ lkPc["main"] = "rs_clear"
    /\ peers' = EmptyMap
    /\ peers_mutex_' = "free"
    /\ lkPc' = Goto("main", "idle")
    /\ UNCHANGED <<pipeVars, next_ssrc_, reg_running_, cleanupPc, churned,
                   sigVars, clients_mutex_, stats_mutex_, lkArg, lkTodo, lkQuiet>>

\* ---- what each thread holds and waits for --------------------------------
\* the mutex thread t stands in front of
Wants(t) ==
    CASE lkPc[t] \in {"bn_lock", "gs_lock", "cl_lock", "rp_lock", "rs_lock"}
           -> PeersLock
      [] lkPc[t] \in {"ss_lock", "ocd_lock"} -> ClientsLock
      [] lkPc[t] \in {"sn_lock", "gp_lock", "sc_lock"} -> StatsLock(lkArg[t].id)
      [] OTHER -> NoLock

Owner(l) ==
    CASE l.kind = "peers" -> peers_mutex_
      [] l.kind = "clients" -> clients_mutex_
      [] l.kind = "stats" -> stats_mutex_[l.of]
      [] OTHER -> "free"

AllLocks == {PeersLock, ClientsLock} \cup {StatsLock(id) : id \in PeerIds}

Held(t) == {l \in AllLocks : Owner(l) = t}

\* thread t stands at a lock statement whose mutex is taken
Blocked(t) == Wants(t) # NoLock /\ Owner(Wants(t)) # "free"

\* following, from thread u, the holders of the mutexes waited for leads to
\* thread t within n steps
RECURSIVE WaitsOn(_, _, _)
WaitsOn(u, t, n) ==
    /\ n > 0 /\ Blocked(u)
    /\ (Owner(Wants(u)) = t \/ WaitsOn(Owner(Wants(u)), t, n - 1))

\* some threads wait in a circle: each for a mutex the next one holds
Deadlocked == \E t \in LkThreads : WaitsOn(t, t, Cardinality(LkThreads))

(***************************************************************************)
(* Specification of the locks: two sessions stream, then the servers stop  *)
(***************************************************************************)
\* two clients were admitted and their sessions are connected with open
\* tracks; the pipeline is playing
Established(s, ssrc) ==
    [NewPeer(s, ssrc) EXCEPT !.connected_ = TRUE, !.state = "connected",
                             !.track_open = TRUE, !.offer_pending = TRUE]

TwoStreaming ==
    /\ pc = "poll_check" /\ thread_joinable = TRUE /\ running_ = TRUE
    /\ stop_requested_ = FALSE
    /\ pipeline_ = "ptr" /\ graph = "playing" /\ encoder_ = "ptr"
    /\ enc_prop = bitrate_kbps /\ is_hw_encode_ = FALSE /\ pipeline_ok = TRUE
    /\ msg = "none" /\ elapsed = 0 /\ stats_connected = FALSE
    /\ reconnect_count = 0 /\ frames_received = 0
    /\ mainPc = "idle" /\ sbPc = "idle" /\ sb_k = 0 /\ crashed = FALSE
    /\ faults = 0 /\ run_faults = 0 /\ sdPc = "init"
    /\ peers = MapPut(MapPut(EmptyMap, "peer-a", Established("A", U32(0, 42))),
                      "peer-b", Established("B", U32(0, 43)))
    /\ next_ssrc_ = U32(0, 44)
    /\ reg_running_ = TRUE /\ cleanupPc = "loop" /\ churned = 0
    /\ sig_running_ = TRUE /\ ws_server_ = "ptr"
    /\ clients_ = MapPut(MapPut(EmptyMap, "peer-a", "A"), "peer-b", "B")
    /\ wsState = [c \in Clients |-> IF c = "C" THEN "none" ELSE "open"]
    /\ occPc = [c \in Clients |-> IF c = "C" THEN "idle" ELSE "done"]
    /\ occPeer = [c \in Clients |-> IF c = "C" THEN "" ELSE FreshId(c)]
    /\ wsHandlers = [c \in Clients |-> c # "C"]
    /\ cbPending = [c \in Clients |-> "none"]
    /\ sendCalls = [c \in Clients |-> IF c = "C" THEN << >> ELSE <<"welcome">>]
    /\ msgCount = [c \in Clients |-> 0]
    /\ bitrate_cb_calls = << >>
    /\ msgLog = [c \in Clients |-> << >>]
    /\ bitrate_msgs = << >>

InitLock ==
    /\ mode = "reencode_sw" /\ reconnect_max_attempts = 0
    /\ TwoStreaming
    /\ AuxInit

NextLock ==
    \/ BnCall \/ BnLock \/ SnSend \/ SnLock \/ SnStats \/ BnUnlock
    \/ GsCall \/ GsLock \/ GpLock \/ GpUnlock \/ GsUnlock
    \/ ClCall \/ ClLock \/ ClSweep \/ ClExit
    \/ ScLock \/ ScWrite
    \/ SsCall \/ SsLock \/ SsClear \/ SsServer
    \/ RsCall \/ RsJoin \/ RsLock \/ RsClear
    \/ \E id \in PeerIds :
         \/ BnNext(id) \/ GsNext(id)
         \/ ScCall(id, "failed")
         \/ \E inside \in BOOLEAN : SsClose(id, inside)
    \/ ClientClose("B")
    \/ \E c \in {"A", "B"} : OcdCall(c)
    \/ \E t \in {"main", "A", "B"} :
         OcdLock(t) \/ OcdUnlock(t) \/ RpLock(t) \/ RpUnlock(t)

SpecLock == InitLock /\ [][NextLock]_vars

(***************************************************************************)
(* Properties of admission, SSRC assignment and signaling                  *)
(***************************************************************************)
\* the step in which the create_peer call made for socket c returns
CreateReturns(c) == occPc[c] = "create" /\ occPc'[c] # "create"

\* C1: the registry never holds more than max_peers sessions, whatever the
\* interleaving of create_peer, remove_peer and the reaper; a create_peer
\* call made while the map holds max_peers sessions returns "" and leaves the
\* map (and the SSRC counter) as it was.
C1_AdmissionCap ==
    [][/\ Cardinality(DOMAIN peers) <= max_peers
       /\ Cardinality(DOMAIN peers') <= max_peers
       /\ \A c \in Clients :
            (CreateReturns(c) /\ Cardinality(DOMAIN peers) >= max_peers)
              => /\ occPeer'[c] = ""
                 /\ peers' = peers
                 /\ next_ssrc_' = next_ssrc_
      ]_vars

\* C1 witness: the map is full with sessions 42 and 43 and a third socket
\* has just been refused
C1_Witness ==
    /\ Cardinality(DOMAIN peers) = max_peers
    /\ next_ssrc_ = U32(0, 42 + max_peers)
    /\ \E c \in Clients : occPc[c] = "reject" /\ occPeer[c] = ""

\* C2: any two sessions that are in the registry at the same time have
\* different SSRCs.
C2_LiveSsrcsDistinct ==
    \A i \in DOMAIN peers : \A j \in DOMAIN peers :
        i # j => peers[i].ssrc # peers[j].ssrc

\* the messages passed to ws->send on socket c are, in this order, ...
Sent(c, m) == \E i \in 1..Len(sendCalls[c]) : sendCalls[c][i] = m
SentBefore(c, m, n) ==
    \A i \in 1..Len(sendCalls[c]) :
        sendCalls[c][i] = n => \E j \in 1..(i - 1) : sendCalls[c][j] = m

C4_BitrateForwarded == bitrate_cb_calls = bitrate_msgs

(***************************************************************************)
(* Properties of the ingest pipeline                                       *)
(***************************************************************************)
\* the encoder setting of the last built graph, in kbps
EffectiveKbps == enc_prop \div EncoderUnit(mode)

\* the step in which a set_bitrate call returns to its caller
SetBitrateReturns == sbPc # "idle" /\ sbPc' = "idle"

\* C5 (as stated, for a call made while the pipeline is playing and running):
\* for every k and every mode, when set_bitrate(k) returns the effective
\* encoder bitrate is clamp(k, min_bitrate_kbps, max_bitrate_kbps).
C5_ClampInEveryMode ==
    [][(SetBitrateReturns /\ running_ /\ SupState = "Playing") =>
         EffectiveKbps' = SpecClamp(sb_k, min_bitrate_kbps, max_bitrate_kbps)]_vars

\* C5 (amended): a set_bitrate(k) call that found an encoder on a running
\* pipeline (which happens in the re-encode modes only) leaves the encoder at
\* clamp(k, min, max) kbps on either backend; every other call leaves the
\* encoder setting as it was.
C5_ClampWhenReencoding ==
    [][SetBitrateReturns =>
         IF sbPc = "apply" /\ encoder_ = "ptr"
           THEN /\ mode \in ReencodeModes
                /\ EffectiveKbps' = SpecClamp(sb_k, min_bitrate_kbps, max_bitrate_kbps)
           ELSE enc_prop' = enc_prop]_vars

\* C5 witness: the hardware encoder was set to the upper limit by a hint above it
C5_Witness ==
    /\ mode = "reencode_hw" /\ sbPc = "idle"
    /\ EffectiveKbps = max_bitrate_kbps

\* the supervisor states in which the pipeline is not running
NotRunningStates == {"Idle", "Spawned", "Building", "Backoff", "Exited"}

\* C6: a set_bitrate call that evaluates its guard in passthrough or
\* test-pattern mode, or while the pipeline is not running (before start, after
\* stop, while the supervisor builds or backs off), returns at once and writes
\* nothing.
C6_NoOpWhenNotEncoding ==
    [][(sbPc = "called" /\ sbPc' # "called"
          /\ (mode \in {"passthrough", "test"} \/ SupState \in NotRunningStates))
        => (sbPc' = "idle"
              /\ UNCHANGED <<enc_prop, encoder_, pipeline_, graph, running_,
                             is_hw_encode_, stats_connected, reconnect_count,
                             frames_received, pc>>)]_vars

\* C6 witness: set_bitrate is entered during a back-off, with encoder_ still
\* holding the encoder of the graph that was torn down
C6_Witness ==
    /\ sbPc = "called" /\ SupState = "Backoff"
    /\ mode \in ReencodeModes /\ encoder_ = "ptr"

\* C7: with reconnect_max_attempts = 0 the worker leaves pipeline_thread only
\* when stop was requested; with reconnect_max_attempts = N > 0 the worker
\* makes no further attempt once it has faulted N times.
C7_MaxAttemptsHonoured ==
    /\ (reconnect_max_attempts = 0 /\ SupState = "Exited") => stop_requested_
    /\ (reconnect_max_attempts > 0 /\ run_faults >= reconnect_max_attempts)
          => SupState \notin {"Building", "Playing"}

SupervisedStates == {"Building", "Playing", "Faulted", "Backoff"}
SupervisorEdges ==
    {<<"Building", "Playing">>, <<"Building", "Faulted">>,
     <<"Playing", "Faulted">>, <<"Faulted", "Backoff">>,
     <<"Backoff", "Building">>}

\* C8: between Building, Playing, Faulted and Backoff the worker only moves
\* along Building->Playing, Building->Faulted, Playing->Faulted,
\* Faulted->Backoff, Backoff->Building; it enters Faulted exactly when the
\* build throws, the change to PLAYING fails, or an ERROR or EOS message is
\* popped (no other message faults); it enters Playing only from Building
\* with the built graph set to playing.
C8_SupervisorTransitions ==
    [][/\ (SupState' # SupState /\ SupState \in SupervisedStates
            /\ SupState' \in SupervisedStates)
          => <<SupState, SupState'>> \in SupervisorEdges
       /\ (SupState' = "Faulted" /\ SupState # "Faulted")
          => \/ pc = "build"
             \/ pc = "set_playing"
             \/ pc = "pop" /\ msg' \in {"ERROR", "EOS"}
       /\ (pc = "pop" /\ pc' # "pop")
          => (SupState' = "Faulted" <=> msg' \in {"ERROR", "EOS"})
       /\ (SupState' = "Playing" /\ SupState # "Playing")
          => (SupState = "Building" /\ pipeline_ = "ptr" /\ graph' = "playing")
      ]_vars

\* C8 witness: the worker plays again after a fault and a back-off
C8_Witness == SupState = "Playing" /\ reconnect_count = 1 /\ faults = 1

\* C9 (as stated): every fault is counted, so outside Faulted (and outside the
\* teardown of a stop) reconnect_count equals the number of faults so far.
C9_EveryFaultCounted ==
    SupState \in {"Idle", "Spawned", "Building", "Playing", "Backoff", "Exited"}
      => reconnect_count = faults

\* C9 (amended): reconnect_count changes only by +1 and only in the step that
\* takes the worker from Faulted into Backoff; every entry into Backoff
\* counts; the count never exceeds the number of faults.
C9_CountedOnBackoff ==
    [][/\ reconnect_count' # reconnect_count
          => /\ reconnect_count' = reconnect_count + 1
             /\ SupState = "Faulted" /\ SupState' = "Backoff"
       /\ (SupState' = "Backoff" /\ SupState # "Backoff")
          => /\ SupState = "Faulted"
             /\ reconnect_count' = reconnect_count + 1
       /\ reconnect_count' <= faults'
      ]_vars

\* C9 witness: one source drop, one back-off, counted once
C9_Witness == SupState = "Backoff" /\ faults = 1 /\ reconnect_count = 1

\* C10: stats.connected mirrors Playing. Stated here without the two delays
\* the code has by design (connected turns true with the first sample, and
\* false a few statements after the fault): stats.connected is false whenever
\* the supervisor is in Building or Backoff or has exited.
C10_ConnectedMirrorsPlaying ==
    SupState \in {"Building", "Backoff", "Exited"} => ~stats_connected

\* C11: a start() call made while a worker exists and is building, playing
\* or backing off spawns no second worker and does not crash: the worker is
\* left where it was and the process keeps running.
C11_StartIdempotent ==
    [][(Start /\ thread_joinable
          /\ SupState \in {"Building", "Playing", "Backoff"})
        => (~crashed' /\ pc' = pc /\ thread_joinable')]_vars

(***************************************************************************)
(* Properties of stop() and of the shutdown of main()                      *)
(***************************************************************************)
\* the main thread takes a step of a stop() call made by a destructor, that
\* is of the second stop() of a component
SecondStopStep ==
    mainPc' # mainPc /\ sdPc' \in {"dtor_sig", "dtor_reg", "exit"}

\* C12: stop(); stop() ends where a single stop() ends. Every component is
\* stopped once by the shutdown of main() and once more by its destructor:
\* no step of the second stop() changes the worker, the graph handle, the
\* peer map, the client map, the listener or a socket, and when the second
\* stop() begins the handles and maps are already empty.
C12_StopTwiceAsOnce ==
    [][SecondStopStep =>
         /\ UNCHANGED <<pc, thread_joinable, running_, stop_requested_,
                        pipeline_, graph, encoder_, crashed>>
         /\ UNCHANGED <<peers, reg_running_, cleanupPc>>
         /\ UNCHANGED <<sig_running_, ws_server_, clients_, wsState>>
         /\ pipeline_ = "nullptr" /\ ~thread_joinable
         /\ (sdPc' \in {"dtor_reg", "exit"} =>
               clients_ = EmptyMap /\ ws_server_ = "nullptr")
         /\ (sdPc' = "exit" => peers = EmptyMap /\ cleanupPc = "none")]_vars

\* the number of steps the worker is from leaving pipeline_thread once the
\* stop flag is set
StepsToExit(p) ==
    CASE p \in {"done", "none"}                                    -> 0
      [] p \in {"entry", "loop", "rc_entry", "td_check"}             -> 1
      [] p \in {"rc_sleep", "td_clear", "fail_clear"}               -> 2
      [] p \in {"rc_count", "td_unref", "fail_unref"}               -> 3
      [] p = "td_state"                                             -> 4
      [] p = "td_stats"                                             -> 5
      [] p = "td_bus"                                               -> 6
      [] p = "poll_check"                                           -> 7
      [] p \in {"pop", "store_running"}                             -> 8
      [] p = "set_playing"                                          -> 9
      [] p = "build"                                                -> 10

\* C13: after stop() is called the worker and the reaper terminate and
\* stop() returns. With the stop flag set every step of the worker brings it
\* nearer to its exit (no further bus poll and no further sleep slice is
\* begun; a poll or slice in progress is the last one), a worker that was
\* asked to stop ends, a reaper that was asked to stop ends, and the caller
\* leaves stop() (unless the process has been terminated meanwhile).
C13_StopTerminates ==
    /\ [][(stop_requested_ /\ pc' # pc /\ pc \notin {"none", "done"})
            => StepsToExit(pc') < StepsToExit(pc)]_vars
    /\ ((stop_requested_ /\ thread_joinable) ~> (pc = "done" \/ crashed))
    /\ ((~reg_running_ /\ cleanupPc = "loop") ~> (cleanupPc = "done"))
    /\ ((mainPc # "idle") ~> (mainPc = "idle" \/ crashed))

\* the pipeline was stopped after a fault and a back-off and its worker is
\* joined; the reaper has left its loop and stop() is about to join it
C13_Witness ==
    /\ stop_requested_ /\ pc = "none" /\ ~thread_joinable
    /\ reconnect_count >= 1
    /\ cleanupPc = "done" /\ mainPc = "rs_join"

\* the shutdown of main() has seen rtsp_pipeline.stop() return
PipelineStopReturned ==
    \/ sdPc = "sig_stop" /\ mainPc = "idle"
    \/ sdPc \in {"reg_stop", "dtor_rtsp", "dtor_sig", "dtor_reg", "exit"}

\* C14: at shutdown the pipeline is stopped first, the signaling server
\* second and the registry last (each stop() begins only when the one before
\* has returned), and once the pipeline's stop() has returned no sample is
\* handed to broadcast_nal any more: no peer's packet count moves, in
\* particular not while or after the registry clears its map.
C14_NoNalAfterPipelineStop ==
    [][/\ (sdPc = "sig_stop" /\ sdPc' = "reg_stop")
            => (stop_requested_ /\ pc = "none" /\ ~thread_joinable
                /\ reg_running_ /\ cleanupPc = "loop")
       /\ (sdPc = "reg_stop" /\ sdPc' = "dtor_rtsp")
            => (pc = "none" /\ ~sig_running_ /\ ws_server_ = "nullptr")
       /\ PipelineStopReturned
            => /\ frames_received' = frames_received
               /\ \A id \in DOMAIN peers \cap DOMAIN peers' :
                     peers'[id].rtp_packets_sent = peers[id].rtp_packets_sent]_vars

\* the registry is about to clear a map that holds a connected peer which
\* was sent a NAL while the pipeline ran
C14_Witness ==
    /\ sdPc = "dtor_rtsp" /\ mainPc = "rs_clear"
    /\ \E id \in DOMAIN peers :
          peers[id].connected_ /\ peers[id].track_open
          /\ peers[id].rtp_packets_sent = 1

\* the main thread is inside the stop() call that the shutdown (not a
\* destructor) makes on the signaling server, on the registry
InShutdownSigStop == sdPc = "reg_stop" /\ mainPc \in {"ss_close", "ss_server"}
InShutdownRegStop == sdPc = "dtor_rtsp" /\ mainPc \in {"rs_join", "rs_clear"}

IsSample == frames_received' = frames_received + 1
\* the step hands the buffer to the track of peer id
Handed(id) == peers'[id].track_sent # peers[id].track_sent

NotReady(p) == ~p.connected_ \/ ~p.track_open

\* C17: send_nal on a session that is not connected, or whose track is not
\* open, does nothing: whatever the NAL, the session's RTP timestamp, its
\* rtp_packets_sent and bytes_sent, its state and what its track was handed
\* stay as they were, and no failure is raised; a sample leaves every such
\* session of the map untouched.
C17_SendNalNoOpUnlessReady ==
    /\ [](\A id \in DOMAIN peers, ts \in PtsInputs, size \in NalSizes :
            NotReady(peers[id])
              => SendNal(peers[id], [seq |-> frames_received + 1, ts |-> ts,
                                     size |-> size]) = peers[id])
    /\ [][IsSample => /\ crashed' = crashed
                      /\ \A id \in DOMAIN peers :
                           NotReady(peers[id]) => peers'[id] = peers[id]]_vars

\* a session that was handed the first sample and then failed has seen the
\* second sample go by: its counters and its timestamp are those of the first
C17_Witness ==
    /\ frames_received = 2
    /\ \E id \in DOMAIN peers :
          /\ ~peers[id].connected_ /\ peers[id].track_open
          /\ peers[id].track_sent = <<1>>
          /\ peers[id].rtp_packets_sent = 1

\* pts_us * 90000 as a number: the product in a width it cannot overflow
ExactScaled(ts) == MulWrap(Widen(ts, 11), ClockRate)
\* pts_us * 90000 / 1000000 rounded down, and rounded to nearest, mod 2^32
ScaledFloor(ts) == Low32(DivTrunc(ExactScaled(ts), MicrosPerSecond))
ScaledRound(ts) ==
    Low32(DivTrunc(AddWrap(ExactScaled(ts), MicrosPerSecond \div 2),
                   MicrosPerSecond))

\* C18: for every NAL a connected session submitted with timestamp pts_us,
\* whatever 64-bit value that is, the RTP timestamp set on the track is
\* pts_us * 90000 / 1000000 reduced mod 2^32 (read here with either
\* rounding of the quotient, down or to nearest).
C18_TimestampIsScaledPts ==
    \A id \in DOMAIN peers :
       peers[id].pts_sent # << >>
         => peers[id].rtp_timestamp \in {ScaledFloor(peers[id].pts_sent),
                                         ScaledRound(peers[id].pts_sent)}

\* x <= y for two unsigned numbers of one width (compared from byte i down)
RECURSIVE LeFrom(_, _, _)
LeFrom(x, y, i) ==
    IF i = 0 THEN TRUE
    ELSE IF x[i] # y[i] THEN x[i] < y[i] ELSE LeFrom(x, y, i - 1)
Le(x, y) == LeFrom(x, y, Len(x))

\* the track of every session receives the NALs in the order the pipeline
\* produced them: each one it is handed is the pipeline's latest
OrderPreserved ==
    [][IsSample => \A id \in DOMAIN peers :
         Handed(id) => peers'[id].track_sent
                         = Append(peers[id].track_sent, frames_received')]_vars

\* C19: within one session, over its whole lifetime, the NALs reach the
\* transport in exactly the order the pipeline produced them, and the RTP
\* timestamps set for them never decrease from one NAL to the next.
C19_OrderAndMonotonicTimestamps ==
    [][IsSample => \A id \in DOMAIN peers :
         Handed(id) =>
           /\ peers'[id].track_sent
                 = Append(peers[id].track_sent, frames_received')
           /\ peers[id].rtp_timestamp # << >>
                 => Le(peers[id].rtp_timestamp, peers'[id].rtp_timestamp)]_vars

(***************************************************************************)
(* Properties of the keyframe flag                                         *)
(***************************************************************************)
\* the step installs a remote description in session id
AnswerAccepted(id) ==
    /\ id \in DOMAIN peers /\ id \in DOMAIN peers'
    /\ peers'[id].remote_descriptions # peers[id].remote_descriptions

\* C20: needs_keyframe is true in a session that has just been created, and
\* is true right after every handle_answer whose remote description is
\* accepted, whatever keyframe_sent() calls came before.
C20_NeedsKeyframeRearmed ==
    [][/\ \A id \in DOMAIN peers' \ DOMAIN peers : peers'[id].needs_keyframe_
       /\ \A id \in DOMAIN peers' :
            AnswerAccepted(id) => peers'[id].needs_keyframe_]_vars

\* keyframe_sent() was called, the track has not opened, one answer has been
\* accepted, and the flag is set: it is the answer that set it again
C20_Witness ==
    \E id \in DOMAIN peers :
       /\ peers[id].keyframes_sent = 1 /\ peers[id].remote_descriptions = 1
       /\ ~peers[id].track_open /\ peers[id].needs_keyframe_

(***************************************************************************)
(* Properties of peers that join while the source is away                  *)
(***************************************************************************)
\* the step creates session id
Created(id) == id \in DOMAIN peers' /\ id \notin DOMAIN peers
\* the step hands a NAL to the track of a session that exists before and after
GetsNal(id) == id \in DOMAIN peers /\ id \in DOMAIN peers' /\ Handed(id)

ClosedInMap(id) == id \in DOMAIN peers /\ peers[id].closed_

C23_ClosedIsSticky ==
    /\ [](\A id \in DOMAIN peers :
            peers[id].state \in {"closed", "failed"} => IsClosed(peers[id]))
    /\ [][\A id \in DOMAIN peers :
            (IsClosed(peers[id]) /\ id \in DOMAIN peers')
               => IsClosed(peers'[id])]_vars

\* a session that failed has since been reported connected and is still in
\* the registry, with is_closed() true
C23_Witness ==
    \E id \in DOMAIN peers :
       /\ peers[id].state = "connected" /\ peers[id].connected_
       /\ IsClosed(peers[id])

(***************************************************************************)
(* Properties of disconnection                                             *)
(***************************************************************************)
\* the socket of client c is closed and the session created for it is in
\* the registry
ClosedWithPeer(c) == wsState[c] = "closed" /\ occPeer[c] \in DOMAIN peers

\* C24: whenever the socket of an admitted client closes, at any point after
\* create_peer admitted it, the session created for it is eventually out of
\* the registry.
C24_ClosedSocketFreesPeer ==
    \A c \in {"A", "B"} :
       ClosedWithPeer(c) ~> (occPeer[c] \notin DOMAIN peers)

\* the same for sockets that close once onClosed is registered
ClosedAfterRegistrationFreesPeer ==
    \A c \in {"A", "B"} :
       (ClosedWithPeer(c) /\ cbPending[c] # "none")
          ~> (occPeer[c] \notin DOMAIN peers)

(***************************************************************************)
(* Properties of create_peer, remove_peer and the peer ids                 *)
(***************************************************************************)
Size(m) == Cardinality(DOMAIN m)

\* remove_peer twice is remove_peer once, for ids in the map, ids no longer
\* in the map and the empty id
RemoveIdempotent ==
    \A id \in PeerIdSpace \cup {""} :
       RemovePeer(RemovePeer(peers, id), id) = RemovePeer(peers, id)

\* create_peer with an id that is not in the map, then remove_peer of the
\* id returned, gives back the size
FreshRoundTrip ==
    \A id \in PeerIdSpace \ DOMAIN peers, ok \in BOOLEAN :
       Size(RemovePeer(CreatePeerMap(peers, id, "A", next_ssrc_, ok),
                       CreatePeerId(peers, id, ok))) = Size(peers)

\* C25: create_peer followed by remove_peer of the id it returned brings
\* the number of peers back to what it was before the create, and a second
\* remove_peer of an id leaves the map as the first one left it.
C25_CreateRemoveRoundTrip ==
    /\ RemoveIdempotent
    /\ \A id \in PeerIdSpace, ok \in BOOLEAN :
          Size(RemovePeer(CreatePeerMap(peers, id, "A", next_ssrc_, ok),
                          CreatePeerId(peers, id, ok))) = Size(peers)

\* the create_peer call of socket c returns an id in this step
Returned(c) == occPc[c] = "create" /\ occPeer'[c] # ""

\* C30: every id create_peer returns differs from every id it returned
\* before, so that a create never replaces an entry of the registry and no
\* two sockets are bound to one id.
C30_PeerIdsNeverRepeat ==
    [][\A c \in Clients :
         Returned(c) => /\ occPeer'[c] \notin DOMAIN peers
                        /\ \A d \in Clients \ {c} : occPeer[d] # occPeer'[c]]_vars

(***************************************************************************)
(* Properties of signaling messages                                        *)
(***************************************************************************)
\* the step is an on_client_message call on socket c
IsMsg(c) == msgLog'[c] # msgLog[c]
\* the frame that call was given
Frame(c) == msgLog'[c][Len(msgLog'[c])]
\* the step is the start_offer call of on_client_connected for socket c
IsStartOffer(c) == occPc[c] = "offer" /\ occPc'[c] = "done"

\* C26: start_offer, handle_answer and handle_candidate with an id that is
\* not in the registry raise nothing towards the caller and leave the map
\* and every session in it as they were.
C26_UnknownIdIgnored ==
    /\ [](\A id \in {"", FreshId("A"), FreshId("B")} \ DOMAIN peers :
            /\ StartOffer(peers, id) = peers
            /\ HandleAnswer(peers, id) = peers
            /\ HandleCandidate(peers, id) = peers)
    /\ [][\A c \in {"A"} :
            occPeer[c] \notin DOMAIN peers =>
              /\ IsStartOffer(c) => peers' = peers
              /\ IsMsg(c) => /\ peers' = peers
                             /\ Frame(c).outcome = "returned"]_vars

\* the socket of a client whose session has been reaped is still open and
\* an answer and a candidate it sent were handled after the session had gone
C26_Witness ==
    /\ wsState["A"] = "open" /\ occPeer["A"] # ""
    /\ occPeer["A"] \notin DOMAIN peers
    /\ \E i, j \in 1..Len(msgLog["A"]) :
          /\ msgLog["A"][i].kind = "answer" /\ ~msgLog["A"][i].known
          /\ msgLog["A"][j].kind = "candidate" /\ ~msgLog["A"][j].known

\* the frames on_client_message drops: text that is not JSON or has no
\* usable string "type" ("malformed"), and a type it does not know ("other")
DroppedKinds == {"malformed", "other"}

\* C27: a frame that is not valid JSON, or has no usable type, or has an
\* unknown type, is dropped: on_client_message returns, the socket stays
\* open with its handlers, the session stays in the registry as it was,
\* nothing is sent, and so a later frame on the socket is still handled.
C27_MalformedDropped ==
    [][\A c \in {"A"} :
         (IsMsg(c) /\ Frame(c).kind \in DroppedKinds) =>
            /\ Frame(c).outcome = "returned"
            /\ wsState'[c] = "open" /\ wsHandlers'[c]
            /\ peers' = peers /\ clients_' = clients_
            /\ sendCalls' = sendCalls /\ cbPending' = cbPending]_vars

\* a malformed frame was dropped and the answer that followed it on the
\* same socket was applied to the session
C27_Witness ==
    /\ Len(msgLog["A"]) = 2
    /\ msgLog["A"][1].kind = "malformed" /\ msgLog["A"][1].known
    /\ msgLog["A"][2].kind = "answer"
    /\ occPeer["A"] \in DOMAIN peers
    /\ peers[occPeer["A"]].remote_descriptions = 1
    /\ wsState["A"] = "open"

\* C28: on every socket, whenever handle_answer is applied to the session
\* of the socket, the offer of that session has already been sent on the
\* socket, whenever the client chooses to send its frames.
C28_AnswerAfterOffer ==
    [][\A c \in {"A"} :
         (IsMsg(c) /\ Frame(c).kind \in AnswerKinds /\ Frame(c).known)
            => Sent(c, "offer")]_vars

\* what the order of on_client_connected does give: no frame is handled
\* before the welcome was passed to ws->send
MsgAfterWelcome ==
    [][\A c \in {"A"} : IsMsg(c) => Sent(c, "welcome")]_vars

\* C29: for every frame, those included on which something below fails (an
\* answer whose SDP is refused, a bad candidate, a ping whose reply cannot
\* be sent), on_client_message returns normally, and the frame alone
\* neither removes the peer from the registry nor closes the socket.
C29_NoExceptionLeavesHandler ==
    [][\A c \in {"A"} :
         IsMsg(c) => /\ Frame(c).outcome = "returned"
                     /\ DOMAIN peers' = DOMAIN peers
                     /\ clients_' = clients_
                     /\ wsState' = wsState]_vars

\* the half that holds: whatever the frame, it removes no peer and closes no
\* socket, and a bad candidate does not make on_client_message throw
FrameKillsNothing ==
    [][\A c \in {"A"} :
         IsMsg(c) => /\ DOMAIN peers' = DOMAIN peers
                     /\ clients_' = clients_
                     /\ wsState' = wsState
                     /\ Frame(c).kind = "candidate_bad"
                           => Frame(c).outcome = "returned"]_vars

(***************************************************************************)
(* Properties of concurrent stop, broadcast and locking                    *)
(***************************************************************************)
\* the step in which SignalingServer::stop returns to its caller
SigStopReturns == mainPc = "ss_server" /\ mainPc' = "idle"

\* C31: when SignalingServer::stop() returns, no socket handed to
\* on_client_connected is still open, the client map is empty and the
\* listener is gone, whatever on_client_connected was doing meanwhile.
C31_StopLeavesNoClient ==
    [][SigStopReturns =>
         /\ \A c \in Clients : wsState'[c] # "open"
         /\ clients_' = EmptyMap
         /\ ws_server_' = "nullptr"]_vars

\* the part that holds: once stop() has returned the listener is reset and
\* no on_client_connected call is in progress
StopEndsListener ==
    [][SigStopReturns =>
         /\ ws_server_' = "nullptr"
         /\ \A c \in Clients : occPc'[c] \in {"idle", "done"}]_vars

\* C32: a broadcast_nal call visits exactly the entries the map held when
\* it took the lock: while the loop runs no entry is added to the map or
\* taken from it (create_peer, remove_peer and the reaper wait), and when
\* the lock is released the entries visited are the entries of the map.
C32_BroadcastSeesOneSnapshot ==
    /\ [][(bc.active /\ bc'.active) => DOMAIN peers' = DOMAIN peers]_vars
    /\ [][BcUnlock => (bc.visited = bc.snap /\ DOMAIN peers = bc.snap)]_vars

\* a broadcast is inside its loop while a create_peer call, a remove_peer
\* call and the reaper (with a closed session to take) wait
C32_Witness ==
    /\ bc.active /\ bc.todo # {}
    /\ \E c \in Clients : occPc[c] = "create"
    /\ \E c \in Clients : cbPending[c] = "remove" /\ occPeer[c] \in DOMAIN peers
    /\ \E id \in DOMAIN peers : peers[id].closed_
    /\ cleanupPc = "loop"

\* PeerConnection::Stats (peer_connection.hpp:49-54): every field of it
StatsOf(p) == <<p.rtp_packets_sent, p.bytes_sent, p.state>>

\* the transport send of the session failed in this step
SendFailed(id) ==
    /\ id \in DOMAIN peers /\ id \in DOMAIN peers'
    /\ peers'[id].sends_failed # peers[id].sends_failed

\* C34: when the transport send inside send_h264_nal fails, some field of
\* the session's Stats records it, rtp_packets_sent and bytes_sent stay as
\* they were, the session stays in the map in the state it had, and the
\* broadcast goes on with the entries it has not visited yet.
C34_SendFailureCountedAndContained ==
    [][\A id \in {FreshId("A"), FreshId("B")} :
         SendFailed(id) =>
            /\ StatsOf(peers'[id]) # StatsOf(peers[id])
            /\ peers'[id].rtp_packets_sent = peers[id].rtp_packets_sent
            /\ peers'[id].bytes_sent = peers[id].bytes_sent
            /\ peers'[id].state = peers[id].state
            /\ ~peers'[id].closed_
            /\ bc'.active /\ bc'.todo = bc.todo \ {id}]_vars

\* the part that holds: a failed send advances no counter, leaves the session
\* in the map, neither closed nor in another state, and the loop goes on to
\* the remaining entries, each of which is handed the NAL if it is ready
SendFailureContained ==
    /\ [][\A id \in {FreshId("A"), FreshId("B")} :
            SendFailed(id) =>
               /\ StatsOf(peers'[id]) = StatsOf(peers[id])
               /\ peers'[id].closed_ = peers[id].closed_
               /\ DOMAIN peers' = DOMAIN peers
               /\ bc'.active /\ bc'.todo = bc.todo \ {id}]_vars
    /\ [][BcUnlock => bc.visited = bc.snap]_vars

\* C33: in re-encode mode on a running pipeline set_bitrate(k) gives the
\* hardware encoder clamp(k, min, max) * 1000 and the software encoder
\* clamp(k, min, max), exactly, for every configured max.
C33_EffectiveKbpsIsClamp ==
    rate_out.done =>
       /\ ~rate_out.trapped
       /\ IF rate_in.hw
            THEN Widen(rate_out.written, 8)
                   = Thousandfold(SpecClamp(rate_in.k, min_bitrate_kbps, rate_in.max))
            ELSE rate_out.written
                   = ToBytes(SpecClamp(rate_in.k, min_bitrate_kbps, rate_in.max), 4)

\* what holds: the claim for every max whose thousandfold is an int, and on
\* the software encoder for every max
EffectiveKbpsIsClampBelowOverflow ==
    (rate_out.done /\ (~rate_in.hw \/ rate_in.max <= IntMax \div 1000)) =>
       /\ ~rate_out.trapped
       /\ IF rate_in.hw
            THEN Widen(rate_out.written, 8)
                   = Thousandfold(SpecClamp(rate_in.k, min_bitrate_kbps, rate_in.max))
            ELSE rate_out.written
                   = ToBytes(SpecClamp(rate_in.k, min_bitrate_kbps, rate_in.max), 4)

\* C35: for every request URI the server sends a file only if its
\* canonical path is the web root or below it; a URI that resolves outside
\* the web root gets 404 and no file.
C35_ServesOnlyInsideRoot ==
    http_resp.done =>
       /\ http_resp.status = 200 => InsideBySegments(http_resp.file, web_root_)
       /\ (Canonical(web_root_, http_uri) # NoPath
             /\ ~InsideBySegments(Canonical(web_root_, http_uri), web_root_))
            => (http_resp.status = 404 /\ http_resp.file = << >>)

\* what the check of resolve_path does give: the string of every path
\* served begins with the string of the web root, and a path that leaves
\* the root for a directory whose name does not begin with the root's gets 404
ServedHasRootStringPrefix ==
    http_resp.done =>
       /\ http_resp.status = 200 =>
             (http_resp.file \in Files /\ InsideByString(http_resp.file, web_root_))
       /\ (Len(http_uri) >= 2 /\ http_uri[1] = ".." /\ http_uri[2] = "o")
            => http_resp.status = 404

(***************************************************************************)
(* Properties of the graph's lifetime                                      *)
(***************************************************************************)
\* stop() uses the graph handle: gst_element_set_state (rtsp_pipeline.cpp:36)
\* or gst_object_unref (line 44)
StopUsesGraph == (StopSetNull \/ StopFinal) /\ pipeline_ = "ptr"

\* set_bitrate uses the encoder handle (rtsp_pipeline.cpp:60, 63)
SetBitrateUsesEncoder == SetBitrateApply /\ encoder_ = "ptr"

\* the worker or stop() drops the reference to the graph
\* (rtsp_pipeline.cpp:280, 317, 44)
Releases == (SupFailUnref \/ SupTdUnref \/ (StopFinal /\ pipeline_ = "ptr"))

\* C37: however stop() and set_bitrate interleave with the worker, stop()
\* does not use the graph handle and set_bitrate does not use the encoder
\* handle once the graph has been released, and no graph is released twice.
C37_NoUseAfterRelease ==
    [][/\ StopUsesGraph => graph # "released"
       /\ SetBitrateUsesEncoder => graph # "released"
       /\ Releases => graph # "released"]_vars

\* the three parts one by one
StopNeverUsesReleasedGraph == [][StopUsesGraph => graph # "released"]_vars
SetBitrateNeverUsesReleasedEncoder ==
    [][SetBitrateUsesEncoder => graph # "released"]_vars
NoGraphReleasedTwice == [][Releases => graph # "released"]_vars
\* stop() alone: its unref after the join never meets a released graph
StopUnrefsLiveGraph ==
    [][(StopFinal /\ pipeline_ = "ptr") => graph # "released"]_vars

\* C38: every successful build of a re-encode graph, the first and each
\* rebuild after a fault, leaves the new encoder at the configured
\* bitrate_kbps, whatever set_bitrate wrote to an earlier graph's encoder.
C38_RebuildStartsAtConfigured ==
    [][(SupBuildOk /\ mode \in ReencodeModes) =>
         (encoder_' = "ptr" /\ EffectiveKbps' = bitrate_kbps)]_vars

\* C38 witness: the graph was rebuilt after a fault and its encoder is at the
\* configured value, although a set_bitrate call had set an earlier encoder
\* to another one
C38_Witness ==
    /\ pc = "set_playing" /\ reconnect_count > 0
    /\ mode \in ReencodeModes
    /\ sb_hinted
    /\ EffectiveKbps = bitrate_kbps

\* as long as no set_bitrate call has written another value, the encoder of
\* the last graph that was built with one is at the configured value
BuiltEncoderAtConfiguredUntilHinted ==
    (mode \in ReencodeModes /\ encoder_ = "ptr" /\ ~sb_hinted) =>
        EffectiveKbps = bitrate_kbps

(***************************************************************************)
(* Properties of admission when the session cannot be built                *)
(***************************************************************************)
\* the step in which create_peer returns for socket c after the PeerConnection
\* constructor threw: the map was below the cap and the constructor had
\* taken its SSRC (peer_connection.cpp:15), yet no session of the generated
\* id is in the map
ConstructionFailed(c) ==
    /\ CreateReturns(c)
    /\ ~AtCap(Cardinality(DOMAIN peers))
    /\ next_ssrc_' # next_ssrc_
    /\ FreshId(c) \notin DOMAIN peers'

\* the step in which the handler of socket c passes the error to ws->send
ErrorSent(c) == ~Sent(c, "error") /\ Sent(c, "error")'

C40_ClientsWithinCap == Cardinality(DOMAIN clients_) <= max_peers

\* the sessions of the client map whose socket is open
OpenClients == {id \in DOMAIN clients_ : wsState[clients_[id]] = "open"}

\* the same bound for the sessions that still hold an open socket
OpenClientsWithinCap == Cardinality(OpenClients) <= max_peers

(***************************************************************************)
(* Properties of the locks                                                 *)
(***************************************************************************)
\* a thread that stands at a lock statement holds nothing, or holds the peer
\* map's mutex and asks for a session's stats mutex
LockOrderRespected ==
    \A t \in LkThreads :
        Wants(t) # NoLock =>
            \A h \in Held(t) : h = PeersLock /\ Wants(t).kind = "stats"

\* C36: no set of threads waits in a circle, and every thread that asks for
\* a mutex holds nothing or holds peers_mutex_ and asks for a stats_mutex_:
\* clients_mutex_ is never held when peers_mutex_ is asked for, and no
\* handler run under a mutex asks for that mutex again.
C36_DeadlockFree == LockOrderRespected /\ ~Deadlocked

\* the thread that runs SignalingServer::stop stands at the lock statement of
\* on_client_disconnected while it holds clients_mutex_
StopWaitsForItself ==
    /\ lkPc["main"] = "ocd_lock" /\ clients_mutex_ = "main"

\* every circle of waiting threads, and every request out of order, is that
\* one: the onClosed handler run inside close()
OnlyStopBreaksTheOrder ==
    /\ Deadlocked => StopWaitsForItself
    /\ \A t \in LkThreads :
         (Wants(t) # NoLock /\ ~(t = "main" /\ StopWaitsForItself)) =>
             \A h \in Held(t) : h = PeersLock /\ Wants(t).kind = "stats"

\* clients_mutex_ is not held by a thread that asks for peers_mutex_, and the
\* stats mutexes are innermost
ClientsNeverHeldForPeers ==
    \A t \in LkThreads :
        /\ Wants(t) = PeersLock => Held(t) = {}
        /\ (\E id \in PeerIds : StatsLock(id) \in Held(t)) => Wants(t) = NoLock

\* each mutex has one holder and only a thread inside its critical section
\* holds it
HoldersAreInside ==
    /\ peers_mutex_ # "free" =>
          lkPc[peers_mutex_] \in {"bn_loop", "sn_send", "sn_lock", "sn_stats",
                                  "gs_loop", "gp_lock", "gp_copy", "cl_sweep",
                                  "rp_erase", "rs_clear"}
    /\ clients_mutex_ # "free" =>
          lkPc[clients_mutex_] \in {"ocd_erase", "ss_loop", "ocd_lock"}
    /\ \A id \in PeerIds : stats_mutex_[id] # "free" =>
          lkPc[stats_mutex_[id]] \in {"sn_stats", "gp_copy", "sc_write"}

====
